---- MODULE Spec2Model ----
(***************************************************************************)
(* Tabular Q-learning traffic-light controllers of the repository:         *)
(*   main.py                 single-agent trainer            (variant main)*)
(*   main_new.py             multi-agent trainer, min green  (variant new) *)
(*   train_gemini_version.py multi-agent trainer, collisions (variant gem) *)
(*   main_fuzzy.py           fuzzy-logic controller, min green (variant fz)*)
(*   run_qlearning_tls.py    inference, one joint table       (variant run)*)
(*   run_qlearning_tls_multi_tables.py  inference, per TLS   (variant runm)*)
(* The simulator (TraCI/SUMO) is an external service: its observations are *)
(* drawn nondeterministically from small sets at every simulation step.    *)
(* Real-valued quantities (rewards, Q values, epsilon) are kept in fixed   *)
(* point with Scale units per 1.0.                                         *)
(***************************************************************************)
EXTENDS Integers, Sequences, FiniteSets, TLC

VARIABLES
    variant,      \* which script runs: "main", "new", "gem", "fz", "run", "runm"
    cfg,          \* scenario: MAX_STEPS, NUM_EPISODES, the network's TLS and their lanes
    pc,           \* position of the process in its script
    ep,           \* episode counter of the for loop (0 before the first)
    steps,        \* simulated steps taken in the current episode
    sub,          \* iterations done of the inner "for _ in range(DECISION_INTERVAL)"
    eps,          \* exploration rate, fixed point
    q_tables,     \* in-memory tables: table id -> (key -> row); main.py's single table has id 0
    q_shape,      \* type of the object bound to q_tables: "dict" or "list"
    agents,       \* per-TLS bookkeeping of the episode (tls_info / agents dict)
    file,         \* content of Q_TABLE_FILE / Q_TABLES_FILE on disk
    ckpt,         \* main_new: latest periodic checkpoint file q_table_multi_ep{ep}.pkl
    sessionOpen,  \* a TraCI session is open
    sessions,     \* number of sessions started by start_sumo in this process
    simPhase,     \* simulator: active phase per TLS
    halts,        \* simulator: halting vehicles per lane
    waits,        \* simulator: accumulated waiting time per lane
    collisions,   \* simulator: colliding vehicles in the last step
    simTime,      \* simulator: steps taken since the session was started
    hist          \* history record used by the properties only

vars == <<variant, cfg, pc, ep, steps, sub, eps, q_tables, q_shape, agents, file, ckpt,
          sessionOpen, sessions, simPhase, halts, waits, collisions, simTime, hist>>

(***************************** bounds **************************************)
LongRun      == 21   \* MAX_STEPS of the long single-episode scenario
ShortRun     == 3    \* MAX_STEPS of the short scenarios
ManyEpisodes == 3    \* NUM_EPISODES of the multi-episode scenario
FloorRun     == 300  \* NUM_EPISODES of the scenario that decays epsilon down to its floor
MaxCount     == 16   \* largest halting count given to the state encoders

\* the scenarios explored: one long episode, several short ones, two intersections
\* getControlledLanes(tls) lists one lane per link, so a lane may be listed twice
OneLane(T)  == [t \in T |-> <<t, t>>]                       \* one approach per TLS
TwoLanes(T) == [t \in T |-> <<2 * t - 1, 2 * t, 2 * t - 1>>] \* a north and an east approach

\* every TLS program has two phases / the program of TLS 2, or of the only TLS, has none
TwoPhases(T) == [t \in T |-> 2]
NoPhases(T)  == [t \in T |-> IF t = CHOOSE u \in T : \A w \in T : u >= w THEN 0 ELSE 2]

\* a scenario: run lengths, the network, whether EPSILON_DECAY is set to 0.99, and
\* whether the episode's reward total (which only feeds the log lines) is followed
Scenario(m, e, T, L, P, d) ==
    [maxSteps |-> m, episodes |-> e, tls |-> T, lanes |-> L, phases |-> P, decay99 |-> d,
     tally |-> FALSE]

\* the scenarios of the trainers: one long episode, several short ones, two
\* intersections, an intersection without phases, many empty episodes
Configs == { Scenario(LongRun,  1,            {1},    OneLane({1}),    TwoPhases({1}),    FALSE),
             Scenario(ShortRun, ManyEpisodes, {1},    OneLane({1}),    TwoPhases({1}),    FALSE),
             Scenario(ShortRun, 1,            {1, 2}, OneLane({1, 2}), TwoPhases({1, 2}), FALSE),
             Scenario(ShortRun, 1,            {1},    OneLane({1}),    NoPhases({1}),     FALSE),
             Scenario(ShortRun, 1,            {1, 2}, OneLane({1, 2}), NoPhases({1, 2}),  FALSE),
             Scenario(0,        FloorRun,     {1},    OneLane({1}),    TwoPhases({1}),    TRUE) }
\* the scenarios of the inference runners: several decisions, two intersections
InferConfigs == { Scenario(LongRun,  1, {1},    OneLane({1}),    TwoPhases({1}),    FALSE),
                  Scenario(ShortRun, 1, {1, 2}, OneLane({1, 2}), TwoPhases({1, 2}), FALSE) }
\* the scenario of the fuzzy controller (its run length is fixed in the script)
FuzzyConfigs == { Scenario(LongRun, 1, {1}, TwoLanes({1}), TwoPhases({1}), FALSE) }

TLS          == cfg.tls                \* traffic lights of the network (getIDList)
Phases       == {0, 1}                 \* phase indices of a TLS program with two phases
HaltValues   == {0, 4}                 \* halting counts the simulator reports
WaitValues   == {0, 1}                 \* lane waiting times (seconds) the simulator reports
CollisionValues == {0, 1}              \* colliding-vehicle counts the simulator reports

ControlledLanes(t) == cfg.lanes[t]
Lanes == UNION { { ControlledLanes(t)[i] : i \in DOMAIN ControlledLanes(t) } : t \in TLS }

Scale == 10 * 10 * 10                  \* fixed-point units per 1.0

(************************ program constants ********************************)
MIN_GREEN             == 10
DECISION_INTERVAL_new == 5
DECISION_INTERVAL_fz  == 5
DECISION_INTERVAL_main == 5
DECISION_INTERVAL_gem == 10
DECISION_INTERVAL_run == 5
DECISION_INTERVAL_runm == 10
SAVE_INTERVAL         == 3
GEM_SAVE_EVERY        == 10
COLLISION_PENALTY     == 50
STATE_BINS_new        == <<0, 1, 3>>
STATE_BINS_main       == <<0, 1, 3>>
STATE_BINS_gem        == <<0, 2, 5, 10, 15>>
STATE_BINS_run        == <<0, 1, 3>>
STATE_BINS_runm       == <<0, 2, 5, 10, 15>>
PHASE_CHANGE_PENALTY  == Scale \div 10          \* 0.1
EPSILON_START         == Scale                  \* 1.0
EPSILON_END           == (5 * Scale) \div 100   \* 0.05
ALPHA_new == <<1, 10>>     \* 0.1  as <<numerator, denominator>>
GAMMA_new == <<95, 100>>   \* 0.95
DECAY_new == <<999, 1000>> \* 0.999
ALPHA_main == <<7, 10>>
GAMMA_main == <<9, 10>>
DECAY_main == <<995, 1000>>
ALPHA_gem == <<2, 10>>
GAMMA_gem == <<95, 100>>
DECAY_gem == <<999, 1000>>
DECAY_99  == <<99, 100>>   \* EPSILON_DECAY set to 0.99

(***************************** helpers *************************************)
Max(a, b) == IF a >= b THEN a ELSE b

RECURSIVE SeqMax(_)
SeqMax(s) == IF Len(s) = 1 THEN s[1] ELSE Max(s[1], SeqMax(Tail(s)))

RECURSIVE SeqSum(_)
SeqSum(s) == IF s = <<>> THEN 0 ELSE s[1] + SeqSum(Tail(s))

Range(s) == { s[i] : i \in DOMAIN s }

\* list(dict.fromkeys(lanes)): first occurrences, order kept
RECURSIVE Dedupe(_)
Dedupe(s) ==
    IF s = <<>> THEN <<>>
    ELSE LET d == Dedupe(SubSeq(s, 1, Len(s) - 1))
             x == s[Len(s)]
         IN IF x \in Range(d) THEN d ELSE Append(d, x)

\* (mutation of discretize: a count equal to a threshold falls into the next bin)
discretizeStrict(x, bins) ==
    IF \E i \in DOMAIN bins : x < bins[i]
    THEN (CHOOSE i \in DOMAIN bins : x < bins[i] /\ \A j \in 1..(i - 1) : x >= bins[j]) - 1
    ELSE Len(bins)

\* for i, t in enumerate(bins): if x <= t: return i;  return len(bins)
discretize(x, bins) ==
    IF \E i \in DOMAIN bins : x <= bins[i]
    THEN (CHOOSE i \in DOMAIN bins : x <= bins[i] /\ \A j \in 1..(i - 1) : x > bins[j]) - 1
    ELSE Len(bins)

\* [0.0] * n
ZeroRow(n) == [i \in 1..n |-> 0]

\* (mutation of ensure_q: a new row starts with ones)
ensure_qOnes(q_table, key, n) ==
    IF key \in DOMAIN q_table THEN q_table
    ELSE [k \in DOMAIN q_table \cup {key} |->
            IF k = key THEN [i \in 1..n |-> 1] ELSE q_table[k]]

\* ensure_q / ensure_q_row: add an all-zero row if the key has none
ensure_q(q_table, key, n) ==
    IF key \in DOMAIN q_table THEN q_table
    ELSE [k \in DOMAIN q_table \cup {key} |-> IF k = key THEN ZeroRow(n) ELSE q_table[k]]

\* (mutation of QUpdate: the old value is not subtracted inside the bracket)
QUpdateNoOld(old, reward, next_max, alpha, gamma) ==
    old + (alpha[1] * (reward + ((gamma[1] * next_max) \div gamma[2]))) \div alpha[2]

\* old + ALPHA * (reward + GAMMA * next_max - old), fixed point
QUpdate(old, reward, next_max, alpha, gamma) ==
    old + (alpha[1] * (reward + ((gamma[1] * next_max) \div gamma[2]) - old)) \div alpha[2]

\* (mutation of SetQ: the score is appended to the row)
SetQAppending(q_table, key, action, v) ==
    [q_table EXCEPT ![key] = Append(@, v)]

\* (mutation of SetQ: the score is written to every entry of the row)
SetQWholeRow(q_table, key, action, v) ==
    [q_table EXCEPT ![key] = [i \in DOMAIN @ |-> v]]

\* q_table[key][action] = v   (actions are 0-based, rows 1-based)
SetQ(q_table, key, action, v) ==
    [q_table EXCEPT ![key] = [@ EXCEPT ![action + 1] = v]]

\* (mutation of choose_action: the best action is returned as a 1-based position)
choose_actionOneBased(q_table, key, n, epsilon) ==
    LET explore == IF epsilon > 0 THEN 0..(n - 1) ELSE {}
        greedy  == IF epsilon >= Scale THEN {}
                   ELSE IF key \notin DOMAIN q_table THEN 0..(n - 1)
                   ELSE IF q_table[key] = <<>> THEN {}
                   ELSE { a \in 1..Len(q_table[key]) : q_table[key][a] = SeqMax(q_table[key]) }
    IN explore \cup greedy

\* epsilon-greedy choice: the set of actions choose_action can return
\* (random.randrange(0) and max([]) raise ValueError: the empty set)
choose_action(q_table, key, n, epsilon) ==
    LET explore == IF epsilon > 0 THEN 0..(n - 1) ELSE {}
        greedy  == IF epsilon >= Scale THEN {}
                   ELSE IF key \notin DOMAIN q_table THEN 0..(n - 1)
                   ELSE IF q_table[key] = <<>> THEN {}
                   ELSE { a \in 0..(Len(q_table[key]) - 1) :
                            q_table[key][a + 1] = SeqMax(q_table[key]) }
    IN explore \cup greedy

\* (mutation of DecayEpsilon: the product is not clamped at EPSILON_END)
DecayEpsilonUnclamped(e, decay) == (e * decay[1]) \div decay[2]

\* epsilon = max(EPSILON_END, epsilon * EPSILON_DECAY)
DecayEpsilon(e, decay) == Max(EPSILON_END, (e * decay[1]) \div decay[2])

\* the value of EPSILON_DECAY in a run of a script whose source sets it to `own`
EPSILON_DECAY(own) == IF cfg.decay99 THEN DECAY_99 ELSE own

NoTables == << >>          \* {} : no table for any TLS
NoRows   == << >>          \* {} : a table without rows
\* len(getCompleteRedYellowGreenDefinition(tls)[0].phases)
n_actions(t) == cfg.phases[t]
\* the phase indices setPhase accepts for a TLS; any other index raises TraCIException
PhasesOf(t) == 0..(n_actions(t) - 1)
\* the least element of a set of TLS ids: the first in the order of getIDList()
First(S) == CHOOSE t \in S : \A u \in S : t <= u

(*************************** state keys ************************************)
\* ",".join(map(str, s)): a string key; two tuples give the same string iff they are equal
state_key(s) == [kind |-> "str", v |-> s]
\* a tuple used as the key itself
tuple_key(s) == [kind |-> "tuple", v |-> s]

(************************ checkpoint files *********************************)
\* A file is absent or holds a byte stream, modelled as a sequence of pickle
\* operations: DICT or LIST opens the top-level object, TABLE opens the table
\* of one TLS, ROW adds one key/row pair, STOP ends the stream.  A stream
\* without STOP is truncated; JUNK stands for bytes that are no pickle.
Op(o, i, k, r) == [op |-> o, id |-> i, key |-> k, row |-> r]
NoKey   == state_key(<<>>)
Absent  == [exists |-> FALSE, data |-> <<>>]
Bytes(d) == [exists |-> TRUE, data |-> d]
Garbage  == Bytes(<<Op("JUNK", 0, NoKey, <<>>)>>)
ListFile == Bytes(<<Op("LIST", 0, NoKey, <<>>), Op("STOP", 0, NoKey, <<>>)>>)

RECURSIVE SetToSeq(_)
SetToSeq(S) == IF S = {} THEN <<>>
               ELSE LET x == CHOOSE y \in S : TRUE IN <<x>> \o SetToSeq(S \ {x})

\* (mutation of RowOps: the scores written with whole units only)
RowOpsRounded(q_table) ==
    LET ks == SetToSeq(DOMAIN q_table)
    IN [i \in 1..Len(ks) |->
          Op("ROW", 0, ks[i], [a \in DOMAIN q_table[ks[i]] |->
                                 (q_table[ks[i]][a] \div Scale) * Scale])]

\* the ROW operations of one table
RowOps(q_table) ==
    LET ks == SetToSeq(DOMAIN q_table)
    IN [i \in 1..Len(ks) |-> Op("ROW", 0, ks[i], q_table[ks[i]])]

RECURSIVE TableOps(_, _)
TableOps(tables, ids) ==
    IF ids = <<>> THEN <<>>
    ELSE <<Op("TABLE", ids[1], NoKey, <<>>)>> \o RowOps(tables[ids[1]])
         \o TableOps(tables, Tail(ids))

\* pickle.dump(q_table, f) of main.py: one flat dict key -> row
PickleDumpFlat(tables) ==
    <<Op("DICT", 0, NoKey, <<>>)>>
    \o (IF 0 \in DOMAIN tables THEN RowOps(tables[0]) ELSE <<>>)
    \o <<Op("STOP", 0, NoKey, <<>>)>>

\* pickle.dump(q_tables, f) of the multi-agent trainers: dict tls -> dict key -> row
PickleDump(tables) ==
    <<Op("DICT", 0, NoKey, <<>>)>>
    \o TableOps(tables, SetToSeq(DOMAIN tables))
    \o <<Op("STOP", 0, NoKey, <<>>)>>

\* the unpickler's object after reading the operations d[2..n], table `cur` being open
RECURSIVE Build(_, _, _)
Build(d, n, flat) ==
    IF n <= 1 THEN [tables |-> IF flat THEN (0 :> NoRows) ELSE NoTables, cur |-> 0]
    ELSE LET b == Build(d, n - 1, flat)
             o == d[n]
         IN IF o.op = "TABLE"
            THEN [tables |-> ensure_q(b.tables, o.id, 0) , cur |-> o.id]
            ELSE IF o.op = "ROW"
            THEN [tables |-> [b.tables EXCEPT ![b.cur] =
                               [k \in DOMAIN @ \cup {o.key} |->
                                   IF k = o.key THEN o.row ELSE @[k]]],
                  cur |-> b.cur]
            ELSE b

\* pickle.load(f): raises on bytes that are no complete pickle, else returns the object
PickleLoad(f, flat) ==
    LET d == f.data
        n == Len(d)
        wellFormed == /\ n >= 2
                      /\ d[1].op \in {"DICT", "LIST"}
                      /\ d[n].op = "STOP"
                      /\ \A i \in 2..(n - 1) : d[i].op \in {"TABLE", "ROW"}
    IN IF ~wellFormed THEN [ok |-> FALSE, shape |-> "none", tables |-> NoTables]
       ELSE IF d[1].op = "LIST" THEN [ok |-> TRUE, shape |-> "list", tables |-> NoTables]
       ELSE [ok |-> TRUE, shape |-> "dict", tables |-> Build(d, n - 1, flat).tables]

\* open(path, "wb"): the file exists and is empty
OpenForWrite == Bytes(<<>>)

\* (mutation of StartTables: the file is opened without the existence test)
StartTablesUnguarded(f, flat) == PickleLoad(f, flat)

\* "if os.path.exists(F): tables = pickle.load(f)", else the empty table set
StartTables(f, flat) ==
    IF ~f.exists
    THEN [ok |-> TRUE, shape |-> "dict", tables |-> IF flat THEN (0 :> NoRows) ELSE NoTables]
    ELSE PickleLoad(f, flat)

(***************************** simulator ***********************************)
\* traci.start: a new simulation at time 0, no vehicle inserted yet
SimStart ==
    /\ sessionOpen' = TRUE
    /\ sessions' = sessions + 1
    /\ simPhase' = [t \in TLS |-> 0]
    /\ halts' = [l \in Lanes |-> 0]
    /\ waits' = [l \in Lanes |-> 0]
    /\ collisions' = 0
    /\ simTime' = 0

\* the phase of a TLS program after one step: kept, or switched to the next by its timer
NextPhases(p) == {p, (p + 1) % Cardinality(Phases)}

\* traci.simulationStep(): one simulated second; what the simulator then reports
SimStep(withWaits) ==
    /\ halts' \in [Lanes -> HaltValues]
    /\ simPhase' \in { f \in [TLS -> Phases] : \A t \in TLS :
                        IF n_actions(t) = 0 THEN f[t] = simPhase[t]
                        ELSE f[t] \in NextPhases(simPhase[t]) }
    /\ IF withWaits
       THEN waits' \in [Lanes -> WaitValues] /\ collisions' \in CollisionValues
       ELSE UNCHANGED <<waits, collisions>>
    /\ simTime' = simTime + 1

SimUnchanged == UNCHANGED <<sessionOpen, sessions, simPhase, halts, waits, collisions, simTime>>

\* traci.close()
SimClose == sessionOpen' = FALSE /\ UNCHANGED <<sessions, simPhase, halts, waits, collisions, simTime>>

(************************* history (properties only) ***********************)
NoHist == [chgPrev   |-> [t \in TLS |-> -1],   \* step of the last but one phase-changing command
           chgLast   |-> [t \in TLS |-> -1],   \* step of the last phase-changing command
           startFile |-> Absent,                \* the table file as the process found it
           loaded    |-> "none",                \* outcome of the load: none, absent, ok, error
           reported  |-> FALSE,                 \* an error message or traceback was printed
           collidedEp |-> 0,                    \* episode in which a step reported a collision
           qBefore   |-> NoTables,              \* the tables when that step was taken
           postSteps |-> 0,                     \* simulation steps of that episode after it
           postDecides |-> 0,                   \* decisions of that episode after it
           postUpdates |-> 0,                   \* regular Q-updates of that episode after it
           saveTarget |-> "none",               \* file of the last save begun: "file" or "ckpt"
           saveOld   |-> Absent,                \* its content before that save
           saveNew   |-> Absent,                \* the content that save writes
           killedAt  |-> "none",                \* where the process was when it was killed
           selected  |-> FALSE,                 \* choose_action returned in this episode
           commanded |-> FALSE,                 \* setPhase was called in this episode
           loadedTables |-> NoTables,           \* the tables as the load returned them
           costSeen  |-> [t \in TLS |-> 0],     \* cost on an agent's lanes at its last observation
           initCost  |-> 0,                     \* main.py: the halting count observed at episode start
           churned   |-> 0]                     \* main.py: cycles of the episode that changed the phase

\* open(path, "wb") for a dump of `bytes` into the target file holding `old`
NoteSave(h, target, old, bytes) ==
    [h EXCEPT !.saveTarget = target, !.saveOld = old, !.saveNew = bytes]

\* the cost on the lanes of TLS t: halting vehicles hl, or waiting times wt (gemini)
LaneCost(hl, wt, t) ==
    LET ls == SetToSeq(Range(ControlledLanes(t)))
    IN SeqSum([i \in DOMAIN ls |-> IF variant = "gem" THEN wt[ls[i]] ELSE hl[ls[i]]])

\* a set_phase command for TLS t at step s that differs from the agent's current phase
NoteChange(h, t, s, changes) ==
    IF changes
    THEN [h EXCEPT !.chgPrev[t] = h.chgLast[t], !.chgLast[t] = s]
    ELSE h

NoAgent == [state_key |-> NoKey, phase |-> 0, last_change |-> 0, action |-> 0,
            phase_changed |-> 0, prev_state |-> NoKey,
            prev_waits |-> [l \in Lanes |-> 0], prev_total_halts |-> 0,
            total_reward |-> 0]
NoAgents == [t \in TLS |-> NoAgent]

MAX_STEPS    == cfg.maxSteps
NUM_EPISODES == cfg.episodes

\* (mutation of StepCapReached: the cap is noticed one step late)
StepCapReachedLate(s) == s > MAX_STEPS

\* "while steps < MAX_STEPS" and "if steps >= MAX_STEPS: break": the step cap is reached
StepCapReached(s) == s >= MAX_STEPS

\* (mutation of IntervalDone: the inner loop gives up one iteration early)
IntervalDoneEarly(done, interval) == done >= interval - 1

\* "for _ in range(DECISION_INTERVAL)" is exhausted after `done` iterations
IntervalDone(done, interval) == done >= interval

\* the process ended: normally, by an uncaught/reported exception, by Ctrl-C, or killed
Ended == pc \in {"done", "error", "interrupted", "killed"}

\* the variables of the running script that a step leaves alone
ProcUnchanged == UNCHANGED <<variant, cfg>>

(********************** main_new.py : train() ******************************)
\* group_lanes: lanes grouped by direction (taken from the lane id), groups in
\* order of first appearance; lanes with an odd id are 'N' lanes, the others 'E'
LaneDir(l) == IF l % 2 = 1 THEN "N" ELSE "E"
group_lanes(lanes) ==
    LET dirs == Dedupe([i \in DOMAIN lanes |-> LaneDir(lanes[i])])
    IN [g \in DOMAIN dirs |-> SelectSeq(lanes, LAMBDA l : LaneDir(l) = dirs[g])]

NewGroups(t) == group_lanes(Dedupe(ControlledLanes(t)))

\* sum of the halting numbers of a sequence of lanes
HaltSum(h, lanes) == SeqSum([i \in DOMAIN lanes |-> h[lanes[i]]])

\* get_state(groups, phase): (phase,) + one bin per group
get_state(h, groups, phase) ==
    <<phase>> \o [g \in DOMAIN groups |-> discretize(HaltSum(h, groups[g]), STATE_BINS_new)]

\* (mutation of MinGreenHolds: the decision interval taken for the minimum green)
MinGreenHoldsShort(now, last_change) == now - last_change < DECISION_INTERVAL_new

\* the minimum-green test of the decision loop: the phase is held
MinGreenHolds(now, last_change) == now - last_change < MIN_GREEN

\* lines 84-90: load the tables if the file exists
NewLoad ==
    /\ variant = "new" /\ pc = "load"
    /\ LET r == StartTables(file, FALSE)
       IN IF r.ok
          THEN /\ q_tables' = r.tables /\ q_shape' = r.shape /\ pc' = "ep_start"
               /\ hist' = [hist EXCEPT !.loaded = IF file.exists THEN "ok" ELSE "absent",
                                       !.loadedTables = r.tables]
          ELSE /\ pc' = "error"                       \* pickle.load raised, uncaught
               /\ hist' = [hist EXCEPT !.loaded = "error", !.reported = TRUE]
               /\ UNCHANGED <<q_tables, q_shape>>
    /\ eps' = EPSILON_START
    /\ ep' = 0
    /\ UNCHANGED <<steps, sub, agents, file, ckpt>>
    /\ SimUnchanged /\ ProcUnchanged

\* lines 92-113: next iteration of the episode loop, or leave it for the final save
NewEpisodeInit ==
    /\ variant = "new" /\ pc = "ep_start"
    /\ IF ep >= NUM_EPISODES
       THEN /\ pc' = "final_open"
            /\ UNCHANGED <<ep, steps, sub, q_tables, agents, hist>>
            /\ SimUnchanged
       ELSE /\ ep' = ep + 1
            /\ SimStart
            /\ hist' = [hist EXCEPT !.chgPrev = NoHist.chgPrev, !.chgLast = NoHist.chgLast,
                                    !.selected = FALSE, !.commanded = FALSE,
                                    !.reported = (q_shape = "list"),
                                    !.costSeen = [t \in TLS |-> LaneCost(halts', waits', t)]]
            /\ IF q_shape = "list"
               THEN \* q_tables[tls] = {} on a list: TypeError, uncaught
                    /\ pc' = "error"
                    /\ UNCHANGED <<steps, sub, q_tables, agents>>
               ELSE /\ LET key(t) == state_key(get_state([l \in Lanes |-> 0], NewGroups(t), 0))
                           tabs   == [t \in DOMAIN q_tables \cup TLS |->
                                        IF t \in DOMAIN q_tables THEN q_tables[t] ELSE NoRows]
                       IN /\ q_tables' = [t \in DOMAIN tabs |->
                                            IF t \in TLS THEN ensure_q(tabs[t], key(t), n_actions(t))
                                            ELSE tabs[t]]
                          /\ agents' = [t \in TLS |->
                                          [NoAgent EXCEPT !.state_key = key(t), !.phase = 0,
                                                          !.last_change = 0]]
                    /\ steps' = 0 /\ sub' = 0
                    /\ pc' = IF StepCapReached(0) THEN "ep_end" ELSE "decide"
    /\ UNCHANGED <<eps, q_shape, file, ckpt>>
    /\ ProcUnchanged

\* (mutation of AgentsInTurn: the loop serves the first agent only)
AgentsInTurnFirstOnly == {First(TLS)}

\* "for tls, info in tls_info.items()": the agents the decision loop goes through
AgentsInTurn == TLS

\* lines 119-125 for one agent: the actions it may end up with (none: choose_action raises)
NewChoices(t) ==
    IF MinGreenHolds(steps, agents[t].last_change)
    THEN {agents[t].phase}
    ELSE choose_action(q_tables[t], agents[t].state_key, n_actions(t), eps)

\* lines 117-127: every agent in turn picks its action and commands the phase;
\* an exception (choose_action, setPhase) leaves the loop and ends the process
NewDecide ==
    /\ variant = "new" /\ pc = "decide"
    /\ \E act \in [TLS -> Phases] :
         LET failing == { t \in AgentsInTurn : NewChoices(t) = {} \/ act[t] \notin PhasesOf(t) }
             served  == IF failing = {} THEN AgentsInTurn
                        ELSE { t \in AgentsInTurn : t < First(failing) }
             \* the agents whose action was determined, whose setPhase was called
             reached == IF failing = {} THEN AgentsInTurn
                        ELSE served \cup { t \in failing : t = First(failing) /\ NewChoices(t) # {} }
             changes(t) == ~MinGreenHolds(steps, agents[t].last_change) /\ act[t] # agents[t].phase
         IN /\ \A t \in reached : act[t] \in NewChoices(t)
            /\ \A t \in TLS \ reached : act[t] = 0
            /\ agents' = [t \in TLS |->
                  IF t \in served
                  THEN [agents[t] EXCEPT !.action = act[t],
                                         !.phase_changed = IF changes(t) THEN 1 ELSE 0,
                                         !.last_change = IF changes(t) THEN steps ELSE @]
                  ELSE IF t \in reached
                  THEN [agents[t] EXCEPT !.last_change = IF changes(t) THEN steps ELSE @]
                  ELSE agents[t]]
            /\ simPhase' = [t \in TLS |-> IF t \in served THEN act[t] ELSE simPhase[t]]
            /\ hist' = [hist EXCEPT
                          !.chgPrev = [t \in TLS |-> NoteChange(hist, t, steps,
                                         t \in served /\ act[t] # agents[t].phase).chgPrev[t]],
                          !.chgLast = [t \in TLS |-> NoteChange(hist, t, steps,
                                         t \in served /\ act[t] # agents[t].phase).chgLast[t]],
                          !.selected = @ \/ \E t \in reached :
                                              ~MinGreenHolds(steps, agents[t].last_change),
                          !.commanded = @ \/ reached # {},
                          !.reported = @ \/ failing # {}]
            /\ pc' = IF failing = {} THEN "sim" ELSE "error"
    /\ sub' = 0
    /\ UNCHANGED <<ep, steps, eps, q_tables, q_shape, file, ckpt,
                   sessionOpen, sessions, halts, waits, collisions, simTime>>
    /\ ProcUnchanged

\* lines 130-136: one iteration of the inner loop
NewSimStep ==
    /\ variant = "new" /\ pc = "sim"
    /\ SimStep(FALSE)
    /\ steps' = steps + 1 /\ sub' = sub + 1
    /\ pc' = IF StepCapReached(steps + 1) \/ IntervalDone(sub + 1, DECISION_INTERVAL_new)
             THEN "update" ELSE "sim"
    /\ UNCHANGED <<ep, eps, q_tables, q_shape, agents, file, ckpt, sessionOpen, sessions, hist>>
    /\ ProcUnchanged

\* lines 144-146: the reward of one agent, from the halting counts h that the
\* simulator reports
NewRewardAt(h, t) ==
    LET g == NewGroups(t)
        total == SeqSum([i \in DOMAIN g |-> HaltSum(h, g[i])])
    IN - ((total * Scale) \div Max(1, Len(g))) - PHASE_CHANGE_PENALTY * agents[t].phase_changed

\* lines 139-153 for one agent: the table and the bookkeeping after its update
NewReward(t) == NewRewardAt(halts, t)

NewUpdatedTable(t) ==
    LET key == state_key(get_state(halts, NewGroups(t), simPhase[t]))
        tab == ensure_q(q_tables[t], key, n_actions(t))
        old_q == tab[agents[t].state_key][agents[t].action + 1]
    IN SetQ(tab, agents[t].state_key, agents[t].action,
            QUpdate(old_q, NewReward(t), SeqMax(tab[key]), ALPHA_new, GAMMA_new))

NewUpdate ==
    /\ variant = "new" /\ pc = "update"
    /\ q_tables' = [t \in DOMAIN q_tables |->
                      IF t \in TLS THEN NewUpdatedTable(t) ELSE q_tables[t]]
    /\ agents' = [t \in TLS |->
                    [agents[t] EXCEPT
                       !.state_key = state_key(get_state(halts, NewGroups(t), simPhase[t])),
                       !.phase = simPhase[t]]]
    /\ pc' = IF StepCapReached(steps) THEN "ep_end" ELSE "decide"
    /\ hist' = [hist EXCEPT !.costSeen = [t \in TLS |-> LaneCost(halts, waits, t)]]
    /\ UNCHANGED <<ep, steps, sub, eps, q_shape, file, ckpt>>
    /\ SimUnchanged /\ ProcUnchanged

\* lines 155-160: close the session, decay epsilon, decide on the periodic checkpoint
NewEpisodeEnd ==
    /\ variant = "new" /\ pc = "ep_end"
    /\ SimClose
    /\ eps' = DecayEpsilon(eps, EPSILON_DECAY(DECAY_new))
    /\ pc' = IF ep % SAVE_INTERVAL = 0 THEN "ckpt_open" ELSE "ep_start"
    /\ UNCHANGED <<ep, steps, sub, q_tables, q_shape, agents, file, ckpt, hist>>
    /\ ProcUnchanged

\* line 162: open(ckpt, "wb") creates or truncates q_table_multi_ep{ep}.pkl
NewCkptOpen ==
    /\ variant = "new" /\ pc = "ckpt_open"
    /\ ckpt' = OpenForWrite
    /\ pc' = "ckpt_write"
    /\ hist' = NoteSave(hist, "ckpt", ckpt, Bytes(PickleDump(q_tables)))
    /\ UNCHANGED <<ep, steps, sub, eps, q_tables, q_shape, agents, file>>
    /\ SimUnchanged /\ ProcUnchanged

\* line 162: pickle.dump(q_tables, f) and close
NewCkptWrite ==
    /\ variant = "new" /\ pc = "ckpt_write"
    /\ ckpt' = Bytes(PickleDump(q_tables))
    /\ pc' = "ep_start"
    /\ UNCHANGED <<ep, steps, sub, eps, q_tables, q_shape, agents, file, hist>>
    /\ SimUnchanged /\ ProcUnchanged

\* line 168: open(Q_TABLE_FILE, "wb")
NewFinalOpen ==
    /\ variant = "new" /\ pc = "final_open"
    /\ file' = OpenForWrite
    /\ pc' = "final_write"
    /\ hist' = NoteSave(hist, "file", file, Bytes(PickleDump(q_tables)))
    /\ UNCHANGED <<ep, steps, sub, eps, q_tables, q_shape, agents, ckpt>>
    /\ SimUnchanged /\ ProcUnchanged

\* line 168: pickle.dump(q_tables, f) and close; train() returns
NewFinalWrite ==
    /\ variant = "new" /\ pc = "final_write"
    /\ file' = Bytes(PickleDump(q_tables))
    /\ pc' = "done"
    /\ UNCHANGED <<ep, steps, sub, eps, q_tables, q_shape, agents, ckpt, hist>>
    /\ SimUnchanged /\ ProcUnchanged

(**************** main_fuzzy.py : simulate_with_fuzzy_logic() **************)
\* lines 93-100: the last phase that gives green to a N/S lane, to an E/W lane;
\* phase 0 serves the N/S approaches and phase 1 the E/W approaches
phase_map == [NS |-> 0, EW |-> 1]

\* lines 55-77, 135-140: may the controller output exceed 5 for this queue length?
\* At 0 and 1 only the rule low -> no_change fires, from 3 on only the rules
\* medium/high -> change fire; at 2 both kinds fire.
FuzzyOutcomes(q) == IF q <= 1 THEN {FALSE} ELSE IF q >= 3 THEN {TRUE} ELSE {TRUE, FALSE}

Min(a, b) == IF a <= b THEN a ELSE b

LanesOfDirs(t, dirs) == SelectSeq(Dedupe(ControlledLanes(t)), LAMBDA l : LaneDir(l) \in dirs)

\* lines 83-111
FzInit ==
    /\ variant = "fz" /\ pc = "ep_start"
    /\ SimStart
    /\ agents' = [t \in TLS |-> [NoAgent EXCEPT !.phase = 0, !.last_change = 0]]
    /\ steps' = 0 /\ sub' = 0 /\ ep' = 1
    /\ pc' = "decide"
    /\ hist' = [hist EXCEPT !.chgPrev = NoHist.chgPrev, !.chgLast = NoHist.chgLast]
    /\ UNCHANGED <<eps, q_tables, q_shape, file, ckpt>>
    /\ ProcUnchanged

\* lines 116-145 for one agent: the phases it may command
FzActions(t) ==
    IF MinGreenHolds(steps, agents[t].last_change)
    THEN {agents[t].phase}
    ELSE LET queue_ns == HaltSum(halts, LanesOfDirs(t, {"N", "S"}))
             queue_ew == HaltSum(halts, LanesOfDirs(t, {"E", "W"}))
             current_phase == agents[t].phase
             input_queue == IF current_phase = phase_map.NS THEN queue_ew ELSE queue_ns
             next_phase  == IF current_phase = phase_map.NS THEN phase_map.EW ELSE phase_map.NS
         IN { IF change THEN next_phase ELSE current_phase :
                change \in FuzzyOutcomes(Min(input_queue, 10)) }

\* lines 114-148: every agent commands its phase
FzDecide ==
    /\ variant = "fz" /\ pc = "decide"
    /\ \E act \in [TLS -> Phases] :
         /\ \A t \in TLS : act[t] \in FzActions(t)
         /\ agents' = [t \in TLS |->
               [agents[t] EXCEPT
                  !.action = act[t],
                  !.last_change = IF ~MinGreenHolds(steps, agents[t].last_change)
                                     /\ act[t] # agents[t].phase THEN steps ELSE @,
                  !.phase = act[t]]]          \* getPhase right after setPhase
         /\ simPhase' = act
         /\ hist' = [hist EXCEPT
                       !.chgPrev = [t \in TLS |-> NoteChange(hist, t, steps,
                                                   act[t] # agents[t].phase).chgPrev[t]],
                       !.chgLast = [t \in TLS |-> NoteChange(hist, t, steps,
                                                   act[t] # agents[t].phase).chgLast[t]]]
    /\ pc' = "sim" /\ sub' = 0
    /\ UNCHANGED <<ep, steps, eps, q_tables, q_shape, file, ckpt,
                   sessionOpen, sessions, halts, waits, collisions, simTime>>
    /\ ProcUnchanged

\* lines 151-155: one iteration of the inner loop, then the while test
FzSimStep ==
    /\ variant = "fz" /\ pc = "sim"
    /\ SimStep(FALSE)
    /\ steps' = steps + 1 /\ sub' = sub + 1
    /\ pc' = IF steps + 1 >= MAX_STEPS THEN "ep_end"
             ELSE IF sub + 1 >= DECISION_INTERVAL_fz THEN "decide" ELSE "sim"
    /\ UNCHANGED <<ep, eps, q_tables, q_shape, agents, file, ckpt, sessionOpen, sessions, hist>>
    /\ ProcUnchanged

\* lines 157-158
FzClose ==
    /\ variant = "fz" /\ pc = "ep_end"
    /\ SimClose
    /\ pc' = "done"
    /\ UNCHANGED <<ep, steps, sub, eps, q_tables, q_shape, agents, file, ckpt, hist>>
    /\ ProcUnchanged

(**************** train_gemini_version.py : train(), __main__ **************)
RECURSIVE SortedSeq(_)
SortedSeq(S) == IF S = {} THEN <<>>
                ELSE LET m == CHOOSE x \in S : \A y \in S : x <= y
                     IN <<m>> \o SortedSeq(S \ {m})

\* (mutation of unique_lanes: the lanes of every intersection)
unique_lanesAll(t) == SortedSeq(Lanes)

\* sorted(list(set(lanes)))
unique_lanes(t) == SortedSeq(Range(ControlledLanes(t)))

\* lines 64-65 for a controlled-lane list: one bin per lane, lanes sorted
local_state_of(h, lanes) ==
    LET ls == SortedSeq(Range(lanes))
    IN tuple_key([i \in DOMAIN ls |-> discretize(h[ls[i]], STATE_BINS_gem)])

\* get_local_state(tls_id), lines 60-65
get_local_state(h, t) == local_state_of(h, ControlledLanes(t))

\* lines 84-93: the reward, from the waiting times w and the collision count c
\* that the simulator reports
local_reward(w, c, t, prev_waits) ==
    LET ls == unique_lanes(t)
        base == SeqSum([i \in DOMAIN ls |-> (prev_waits[ls[i]] - w[ls[i]]) * Scale])
    IN IF c > 0 THEN base - COLLISION_PENALTY * Scale * c ELSE base

\* get_local_reward(tls_id, prev_waits), lines 77-94: the reward
get_local_reward(t, prev_waits) == local_reward(waits, collisions, t, prev_waits)

\* (mutation of CollisionDetected: a single colliding vehicle goes unnoticed)
CollisionDetectedLate(c) == c > 1

\* line 160: a step reported a collision
CollisionDetected(c) == c > 0

\* (mutation of CollisionUpdate: the penalty applied a second time)
CollisionUpdateTwice(old) ==
    QUpdate(QUpdate(old, - COLLISION_PENALTY * Scale, 0, ALPHA_gem, GAMMA_gem),
            - COLLISION_PENALTY * Scale, 0, ALPHA_gem, GAMMA_gem)

\* lines 163-167: the penalty update of one entry, without a next-state value
CollisionUpdate(old) == QUpdate(old, - COLLISION_PENALTY * Scale, 0, ALPHA_gem, GAMMA_gem)

\* a TraCI call on a session that was closed raises FatalTraCIError("Not connected.")
TraciRaises == ~sessionOpen

\* __main__, lines 218-227: an exception leaves train(); it is printed, and the
\* finally clause closes the session (a failing close is swallowed)
GemHandled ==
    /\ pc' = "error"
    /\ sessionOpen' = FALSE
    /\ UNCHANGED <<sessions, simPhase, halts, waits, collisions, simTime>>

\* lines 100-106
GemLoad ==
    /\ variant = "gem" /\ pc = "load"
    /\ LET r == StartTables(file, FALSE)
       IN IF r.ok
          THEN /\ q_tables' = r.tables /\ q_shape' = r.shape /\ pc' = "ep_start"
               /\ hist' = [hist EXCEPT !.loaded = IF file.exists THEN "ok" ELSE "absent",
                                       !.loadedTables = r.tables]
               /\ SimUnchanged
          ELSE /\ GemHandled                          \* pickle.load raised
               /\ hist' = [hist EXCEPT !.loaded = "error", !.reported = TRUE]
               /\ UNCHANGED <<q_tables, q_shape>>
    /\ eps' = EPSILON_START
    /\ ep' = 0
    /\ UNCHANGED <<steps, sub, agents, file, ckpt>>
    /\ ProcUnchanged

\* lines 108-133: next iteration of the episode loop, or leave it for the final save
GemEpisodeInit ==
    /\ variant = "gem" /\ pc = "ep_start"
    /\ IF ep >= NUM_EPISODES
       THEN /\ pc' = "final_open"
            /\ UNCHANGED <<ep, steps, sub, q_tables, agents, hist>>
            /\ SimUnchanged
       ELSE /\ ep' = ep + 1
            /\ IF q_shape = "list"
               THEN \* start_sumo(), then q_tables[tls_id] on a list: TypeError,
                    \* handled in __main__, whose finally clause closes the session
                    /\ pc' = "error"
                    /\ sessionOpen' = FALSE /\ sessions' = sessions + 1
                    /\ simPhase' = [t \in TLS |-> 0]
                    /\ UNCHANGED <<halts, waits, collisions>> /\ simTime' = 0
                    /\ hist' = [hist EXCEPT !.reported = TRUE]
                    /\ UNCHANGED <<steps, sub, q_tables, agents>>
               ELSE /\ SimStart
                    /\ LET key(t) == get_local_state([l \in Lanes |-> 0], t)
                           tabs   == [t \in DOMAIN q_tables \cup TLS |->
                                        IF t \in DOMAIN q_tables THEN q_tables[t] ELSE NoRows]
                       IN /\ q_tables' = [t \in DOMAIN tabs |->
                                            IF t \in TLS THEN ensure_q(tabs[t], key(t), n_actions(t))
                                            ELSE tabs[t]]
                          /\ agents' = [t \in TLS |->
                                          [NoAgent EXCEPT !.state_key = key(t), !.action = 0]]
                    /\ steps' = 0 /\ sub' = 0
                    /\ pc' = IF StepCapReached(0) THEN "ep_end" ELSE "decide"
                    /\ hist' = [hist EXCEPT !.chgPrev = NoHist.chgPrev,
                                            !.chgLast = NoHist.chgLast,
                                            !.selected = FALSE, !.commanded = FALSE,
                                            !.costSeen = [t \in TLS |->
                                                            LaneCost(halts', waits', t)]]
    /\ UNCHANGED <<eps, q_shape, file, ckpt>>
    /\ ProcUnchanged

\* line 147: the action is sent to the simulator
GemCommands(t, a) == a # simPhase[t] /\ a % 2 = 0

\* lines 136-151: every agent in turn picks its action; an even action that differs
\* from the simulator's phase is commanded; an exception (choose_action, setPhase)
\* leaves train() and is handled in __main__
GemDecide ==
    /\ variant = "gem" /\ pc = "decide"
    /\ \E act \in [TLS -> Phases] :
         LET choices(t) == choose_action(q_tables[t], agents[t].state_key, n_actions(t), eps)
             failing == { t \in AgentsInTurn :
                             \/ choices(t) = {}
                             \/ GemCommands(t, act[t]) /\ act[t] \notin PhasesOf(t) }
             served  == IF failing = {} THEN AgentsInTurn
                        ELSE { t \in AgentsInTurn : t < First(failing) }
             reached == IF failing = {} THEN AgentsInTurn
                        ELSE served \cup { t \in failing : t = First(failing) /\ choices(t) # {} }
         IN /\ \A t \in reached : act[t] \in choices(t)
            /\ \A t \in TLS \ reached : act[t] = 0
            /\ agents' = [t \in TLS |->
                  IF t \in served
                  THEN [agents[t] EXCEPT !.action = act[t], !.prev_state = agents[t].state_key]
                  ELSE agents[t]]
            /\ simPhase' = [t \in TLS |->
                  IF t \in served /\ GemCommands(t, act[t]) THEN act[t] ELSE simPhase[t]]
            /\ hist' = [hist EXCEPT
                          !.postDecides = IF hist.collidedEp = ep THEN @ + 1 ELSE @,
                          !.chgPrev = [t \in TLS |-> NoteChange(hist, t, steps,
                                         t \in served /\ GemCommands(t, act[t])).chgPrev[t]],
                          !.chgLast = [t \in TLS |-> NoteChange(hist, t, steps,
                                         t \in served /\ GemCommands(t, act[t])).chgLast[t]],
                          !.selected = @ \/ reached # {},
                          !.commanded = @ \/ \E t \in reached : GemCommands(t, act[t]),
                          !.reported = @ \/ failing # {}]
            /\ pc' = IF failing = {} THEN "sim" ELSE "error"
            /\ sessionOpen' = (failing = {})            \* the finally clause of __main__
    /\ sub' = 0
    /\ UNCHANGED <<ep, steps, eps, q_tables, q_shape, file, ckpt,
                   sessions, halts, waits, collisions, simTime>>
    /\ ProcUnchanged

\* lines 154-169: one iteration of the inner loop: a step, then the collision check
GemSimStep ==
    /\ variant = "gem" /\ pc = "sim"
    /\ SimStep(TRUE)
    /\ steps' = steps + 1 /\ sub' = sub + 1
    /\ sessions' = sessions
    /\ IF CollisionDetected(collisions')
       THEN /\ q_tables' = [t \in DOMAIN q_tables |->
                              IF t \in TLS
                              THEN SetQ(q_tables[t], agents[t].prev_state, agents[t].action,
                                        CollisionUpdate(
                                          q_tables[t][agents[t].prev_state][agents[t].action + 1]))
                              ELSE q_tables[t]]
            /\ sessionOpen' = FALSE                      \* traci.close()
            /\ pc' = "update"                            \* break
       ELSE /\ UNCHANGED <<q_tables, sessionOpen>>
            /\ pc' = IF IntervalDone(sub + 1, DECISION_INTERVAL_gem) \/ StepCapReached(steps + 1)
                     THEN "update" ELSE "sim"
    /\ hist' = [hist EXCEPT
                  !.postSteps  = IF hist.collidedEp = ep THEN @ + 1 ELSE @,
                  !.collidedEp = IF collisions' > 0 /\ hist.collidedEp = 0 THEN ep ELSE @,
                  !.qBefore    = IF collisions' > 0 /\ hist.collidedEp = 0 THEN q_tables ELSE @]
    /\ UNCHANGED <<ep, eps, q_shape, agents, file, ckpt>>
    /\ ProcUnchanged

\* lines 172-194 for one agent: its table after the regular update
GemReward(t) ==
    get_local_reward(t, agents[t].prev_waits)
    - (IF agents[t].action # simPhase[t] THEN PHASE_CHANGE_PENALTY ELSE 0)

GemUpdatedTable(t) ==
    LET current_state == get_local_state(halts, t)
        tab == ensure_q(q_tables[t], current_state, n_actions(t))
        prev_q == tab[agents[t].prev_state][agents[t].action + 1]
    IN SetQ(tab, agents[t].prev_state, agents[t].action,
            QUpdate(prev_q, GemReward(t), SeqMax(tab[current_state]), ALPHA_gem, GAMMA_gem))

\* lines 172-194, then the while test of line 134
GemUpdate ==
    /\ variant = "gem" /\ pc = "update"
    /\ IF TraciRaises
       THEN \* get_local_state of the first agent raises; handled in __main__
            /\ GemHandled
            /\ hist' = [hist EXCEPT !.reported = TRUE]
            /\ UNCHANGED <<q_tables, agents>>
       ELSE /\ q_tables' = [t \in DOMAIN q_tables |->
                              IF t \in TLS THEN GemUpdatedTable(t) ELSE q_tables[t]]
            /\ agents' = [t \in TLS |->
                            [agents[t] EXCEPT
                               !.state_key = get_local_state(halts, t),
                               !.prev_waits = [l \in Lanes |->
                                   IF l \in Range(ControlledLanes(t)) THEN waits[l]
                                   ELSE @[l]]]]
            /\ pc' = IF StepCapReached(steps) THEN "ep_end" ELSE "decide"
            /\ hist' = [hist EXCEPT !.postUpdates = IF hist.collidedEp = ep THEN @ + 1 ELSE @,
                                    !.costSeen = [t \in TLS |-> LaneCost(halts, waits, t)]]
            /\ SimUnchanged
    /\ UNCHANGED <<ep, steps, sub, eps, q_shape, file, ckpt>>
    /\ ProcUnchanged

\* lines 196-208: close, decay epsilon, save every tenth episode
GemEpisodeEnd ==
    /\ variant = "gem" /\ pc = "ep_end"
    /\ IF TraciRaises
       THEN /\ GemHandled /\ hist' = [hist EXCEPT !.reported = TRUE] /\ UNCHANGED eps
       ELSE /\ SimClose
            /\ eps' = DecayEpsilon(eps, EPSILON_DECAY(DECAY_gem))
            /\ pc' = IF ep % GEM_SAVE_EVERY = 0 THEN "psave_open" ELSE "ep_start"
            /\ UNCHANGED hist
    /\ UNCHANGED <<ep, steps, sub, q_tables, q_shape, agents, file, ckpt>>
    /\ ProcUnchanged

\* lines 207 and 211: open(Q_TABLES_FILE, "wb")
GemSaveOpen ==
    /\ variant = "gem" /\ pc \in {"psave_open", "final_open"}
    /\ file' = OpenForWrite
    /\ pc' = IF pc = "psave_open" THEN "psave_write" ELSE "final_write"
    /\ hist' = NoteSave(hist, "file", file, Bytes(PickleDump(q_tables)))
    /\ UNCHANGED <<ep, steps, sub, eps, q_tables, q_shape, agents, ckpt>>
    /\ SimUnchanged /\ ProcUnchanged

\* lines 208 and 212: pickle.dump(q_tables, f) and close
GemSaveWrite ==
    /\ variant = "gem" /\ pc \in {"psave_write", "final_write"}
    /\ file' = Bytes(PickleDump(q_tables))
    /\ pc' = IF pc = "psave_write" THEN "ep_start" ELSE "done"
    /\ UNCHANGED <<ep, steps, sub, eps, q_tables, q_shape, agents, ckpt, hist>>
    /\ SimUnchanged /\ ProcUnchanged

(************************** main.py : train() ******************************)
\* tls_ids[0], line 114
tls_id == CHOOSE t \in TLS : \A u \in TLS : t <= u

\* lines 119-125: the controlled lanes without repetitions, order kept
lane_ids == Dedupe(ControlledLanes(tls_id))

\* make_state_from_lane_counts(lane_ids), lines 70-72: one bin per lane, order preserved
make_state_from_lane_counts(h, lanes) ==
    [i \in DOMAIN lanes |-> discretize(h[lanes[i]], STATE_BINS_main)]

\* make_state_from_lane_counts and state_to_key, lines 70-76
make_state_key(h) == state_key(make_state_from_lane_counts(h, lane_ids))

\* lines 98-105
MainLoad ==
    /\ variant = "main" /\ pc = "load"
    /\ LET r == StartTables(file, TRUE)
       IN IF r.ok
          THEN /\ q_tables' = r.tables /\ q_shape' = r.shape /\ pc' = "ep_start"
               /\ hist' = [hist EXCEPT !.loaded = IF file.exists THEN "ok" ELSE "absent",
                                       !.loadedTables = r.tables]
          ELSE /\ pc' = "error"                       \* pickle.load raised, uncaught
               /\ hist' = [hist EXCEPT !.loaded = "error", !.reported = TRUE]
               /\ UNCHANGED <<q_tables, q_shape>>
    /\ eps' = EPSILON_START
    /\ ep' = 0
    /\ UNCHANGED <<steps, sub, agents, file, ckpt>>
    /\ SimUnchanged /\ ProcUnchanged

\* lines 107-141: next iteration of the episode loop, or the end of train()
MainEpisodeInit ==
    /\ variant = "main" /\ pc = "ep_start"
    /\ IF ep >= NUM_EPISODES
       THEN /\ pc' = "done"
            /\ UNCHANGED <<ep, steps, sub, q_tables, agents, hist>>
            /\ SimUnchanged
       ELSE /\ ep' = ep + 1
            /\ sessionOpen' = TRUE /\ sessions' = sessions + 1       \* start_sumo()
            /\ halts' \in [Lanes -> HaltValues]                     \* simulationStep()
            /\ simPhase' \in { f \in [TLS -> Phases] : \A t \in TLS :
                                IF n_actions(t) = 0 THEN f[t] = 0 ELSE f[t] \in NextPhases(0) }
            /\ UNCHANGED <<waits, collisions>> /\ simTime' = 1
            /\ IF q_shape = "list"
               THEN \* q_table[state_key] = ... on a list: TypeError, uncaught
                    /\ pc' = "error"
                    /\ hist' = [hist EXCEPT !.reported = TRUE]
                    /\ UNCHANGED <<steps, sub, q_tables, agents>>
               ELSE /\ q_tables' = [q_tables EXCEPT
                                      ![0] = ensure_q(@, make_state_key(halts'), n_actions(tls_id))]
                    /\ agents' = [agents EXCEPT ![tls_id] =
                                    [NoAgent EXCEPT
                                       !.state_key = make_state_key(halts'),
                                       !.prev_total_halts = HaltSum(halts', lane_ids),
                                       !.phase = simPhase'[tls_id]]]
                    /\ steps' = 0 /\ sub' = 0
                    /\ pc' = IF StepCapReached(0) THEN "ep_end" ELSE "decide"
                    /\ hist' = [hist EXCEPT !.chgPrev = NoHist.chgPrev,
                                            !.chgLast = NoHist.chgLast,
                                            !.selected = FALSE, !.commanded = FALSE,
                                            !.costSeen = [t \in TLS |->
                                                IF t = tls_id THEN LaneCost(halts', waits', t)
                                                ELSE 0],
                                            !.initCost = IF cfg.tally
                                                         THEN HaltSum(halts', lane_ids) ELSE 0,
                                            !.churned = 0]
    /\ UNCHANGED <<eps, q_shape, file, ckpt>>
    /\ ProcUnchanged

\* lines 145-152: pick the action and command it
MainDecide ==
    /\ variant = "main" /\ pc = "decide"
    /\ LET choices == choose_action(q_tables[0], agents[tls_id].state_key,
                                    n_actions(tls_id), eps)
       IN IF choices = {}
          THEN \* choose_action raises ValueError, uncaught
               /\ pc' = "error"
               /\ hist' = [hist EXCEPT !.reported = TRUE]
               /\ UNCHANGED <<agents, simPhase>>
          ELSE \E action \in choices :
                 IF action \notin PhasesOf(tls_id)
                 THEN \* setPhase raises TraCIException, uncaught
                      /\ pc' = "error"
                      /\ hist' = [hist EXCEPT !.reported = TRUE, !.selected = TRUE,
                                              !.commanded = TRUE]
                      /\ UNCHANGED <<agents, simPhase>>
                 ELSE /\ agents' = [agents EXCEPT ![tls_id] =
                            [@ EXCEPT !.action = action,
                                      !.phase_changed = IF action # agents[tls_id].phase
                                                        THEN 1 ELSE 0,
                                      !.phase = action]]
                      /\ simPhase' = [simPhase EXCEPT ![tls_id] = action]
                      /\ hist' = [NoteChange(hist, tls_id, steps, action # agents[tls_id].phase)
                                    EXCEPT !.selected = TRUE, !.commanded = TRUE,
                                           !.churned = IF cfg.tally /\ action # agents[tls_id].phase
                                                       THEN @ + 1 ELSE @]
                      /\ pc' = "sim"
    /\ sub' = 0
    /\ UNCHANGED <<ep, steps, eps, q_tables, q_shape, file, ckpt,
                   sessionOpen, sessions, halts, waits, collisions, simTime>>
    /\ ProcUnchanged

\* lines 155-159: one iteration of the inner loop
MainSimStep ==
    /\ variant = "main" /\ pc = "sim"
    /\ SimStep(FALSE)
    /\ steps' = steps + 1 /\ sub' = sub + 1
    /\ pc' = IF StepCapReached(steps + 1) \/ IntervalDone(sub + 1, DECISION_INTERVAL_main)
             THEN "update" ELSE "sim"
    /\ UNCHANGED <<ep, eps, q_tables, q_shape, agents, file, ckpt, sessionOpen, sessions, hist>>
    /\ ProcUnchanged

\* (mutation of MainReward: the penalty for a phase change is left out)
MainRewardNoChurn ==
    (agents[tls_id].prev_total_halts - HaltSum(halts, lane_ids)) * Scale

\* line 168
MainReward ==
    (agents[tls_id].prev_total_halts - HaltSum(halts, lane_ids)) * Scale
    - PHASE_CHANGE_PENALTY * agents[tls_id].phase_changed

\* lines 162-174: the table after the update
MainUpdatedTable ==
    LET a == agents[tls_id]
        cur_state_key == make_state_key(halts)
        tab == ensure_q(q_tables[0], cur_state_key, n_actions(tls_id))
        old_q == tab[a.state_key][a.action + 1]
    IN SetQ(tab, a.state_key, a.action,
            QUpdate(old_q, MainReward, SeqMax(tab[cur_state_key]), ALPHA_main, GAMMA_main))

\* lines 162-192
MainUpdate ==
    /\ variant = "main" /\ pc = "update"
    /\ q_tables' = [q_tables EXCEPT ![0] = MainUpdatedTable]
    /\ agents' = [agents EXCEPT ![tls_id] =
                    [@ EXCEPT !.state_key = make_state_key(halts),
                              !.prev_total_halts = HaltSum(halts, lane_ids),
                              !.total_reward = IF cfg.tally THEN @ + MainReward ELSE @]]
    /\ pc' = IF StepCapReached(steps) THEN "ep_end" ELSE "decide"
    /\ hist' = [hist EXCEPT !.costSeen = [t \in TLS |->
                                IF t = tls_id THEN LaneCost(halts, waits, t) ELSE 0]]
    /\ UNCHANGED <<ep, steps, sub, eps, q_shape, file, ckpt>>
    /\ SimUnchanged /\ ProcUnchanged

\* lines 195-197: close the session, decay epsilon
MainEpisodeEnd ==
    /\ variant = "main" /\ pc = "ep_end"
    /\ SimClose
    /\ eps' = DecayEpsilon(eps, EPSILON_DECAY(DECAY_main))
    /\ pc' = "psave_open"
    /\ UNCHANGED <<ep, steps, sub, q_tables, q_shape, agents, file, ckpt, hist>>
    /\ ProcUnchanged

\* line 200: open(Q_TABLE_FILE, "wb")
MainSaveOpen ==
    /\ variant = "main" /\ pc = "psave_open"
    /\ file' = OpenForWrite
    /\ pc' = "psave_write"
    /\ hist' = NoteSave(hist, "file", file, Bytes(PickleDumpFlat(q_tables)))
    /\ UNCHANGED <<ep, steps, sub, eps, q_tables, q_shape, agents, ckpt>>
    /\ SimUnchanged /\ ProcUnchanged

\* line 201: pickle.dump(q_table, f) and close
MainSaveWrite ==
    /\ variant = "main" /\ pc = "psave_write"
    /\ file' = Bytes(PickleDumpFlat(q_tables))
    /\ pc' = "ep_start"
    /\ UNCHANGED <<ep, steps, sub, eps, q_tables, q_shape, agents, ckpt, hist>>
    /\ SimUnchanged /\ ProcUnchanged

(******************** run_qlearning_tls.py : run() *************************)
\* the TLS ids in the order of getIDList()
RECURSIVE TlsSeq(_)
TlsSeq(S) == IF S = {} THEN <<>> ELSE <<First(S)>> \o TlsSeq(S \ {First(S)})

\* get_global_state(tls_list), lines 47-54: one bin per lane, TLS after TLS
RECURSIVE GlobalBins(_, _)
GlobalBins(h, ts) ==
    IF ts = <<>> THEN <<>>
    ELSE LET ls == Dedupe(ControlledLanes(ts[1]))
         IN [i \in DOMAIN ls |-> discretize(h[ls[i]], STATE_BINS_run)] \o GlobalBins(h, Tail(ts))
get_global_state(h) == state_key(GlobalBins(h, TlsSeq(TLS)))

\* len(all_joint_actions(action_sizes)), lines 56-63 and 82-83
RECURSIVE JointCount(_)
JointCount(ts) == IF ts = <<>> THEN 1 ELSE n_actions(ts[1]) * JointCount(Tail(ts))

\* joint_actions[idx]: itertools.product enumerates with the last TLS varying fastest
RECURSIVE JointAction(_, _)
JointAction(idx, ts) ==
    IF ts = <<>> THEN << >>
    ELSE LET last == ts[Len(ts)]
         IN JointAction(idx \div n_actions(last), SubSeq(ts, 1, Len(ts) - 1))
            @@ (last :> idx % n_actions(last))

\* np.argmax(row) and row.index(max(row)): the first index of the largest score
argmax(row) ==
    (CHOOSE i \in DOMAIN row : row[i] = SeqMax(row) /\ \A j \in 1..(i - 1) : row[j] # SeqMax(row)) - 1

\* lines 67-69: open and unpickle the table; nothing catches a failure
RunLoad ==
    /\ variant = "run" /\ pc = "load"
    /\ LET r == PickleLoad(file, TRUE)
       IN IF file.exists /\ r.ok
          THEN /\ q_tables' = r.tables /\ q_shape' = r.shape /\ pc' = "ep_start"
               /\ hist' = [hist EXCEPT !.loaded = "ok", !.loadedTables = r.tables]
          ELSE /\ pc' = "error"
               /\ hist' = [hist EXCEPT !.loaded = "error", !.reported = TRUE]
               /\ UNCHANGED <<q_tables, q_shape>>
    /\ UNCHANGED <<ep, steps, sub, eps, agents, file, ckpt>>
    /\ SimUnchanged /\ ProcUnchanged

\* lines 71-94: start SUMO, two steps, the first state and its row
RunInit ==
    /\ variant = "run" /\ pc = "ep_start"
    /\ sessionOpen' = TRUE /\ sessions' = sessions + 1
    /\ halts' \in [Lanes -> HaltValues]
    /\ simPhase' \in [TLS -> Phases]
    /\ UNCHANGED <<waits, collisions>> /\ simTime' = 2
    /\ ep' = 1
    /\ IF q_shape = "list"
       THEN \* ensure_q_row assigns q_table[key] on a list: TypeError, uncaught
            /\ pc' = "error"
            /\ hist' = [hist EXCEPT !.reported = TRUE]
            /\ UNCHANGED <<steps, sub, q_tables, agents>>
       ELSE /\ q_tables' = [q_tables EXCEPT
                              ![0] = ensure_q(@, get_global_state(halts'), JointCount(TlsSeq(TLS)))]
            /\ agents' = [t \in TLS |-> [NoAgent EXCEPT !.state_key = get_global_state(halts'),
                                                         !.phase = simPhase'[t]]]
            /\ steps' = 0 /\ sub' = 0
            /\ pc' = IF 0 < MAX_STEPS THEN "decide" ELSE "ep_end"
            /\ UNCHANGED hist
    /\ UNCHANGED <<eps, q_shape, file, ckpt>>
    /\ ProcUnchanged

\* lines 98-104: the greedy joint action is applied to every TLS
RunDecide ==
    /\ variant = "run" /\ pc = "decide"
    /\ LET prev_key   == agents[First(TLS)].state_key
           action_idx == argmax(q_tables[0][prev_key])
       IN IF action_idx >= JointCount(TlsSeq(TLS))
          THEN \* joint_actions[action_idx]: IndexError, uncaught
               /\ pc' = "error"
               /\ hist' = [hist EXCEPT !.reported = TRUE]
               /\ UNCHANGED <<agents, simPhase>>
          ELSE /\ agents' = [t \in TLS |->
                               [agents[t] EXCEPT
                                  !.action = JointAction(action_idx, TlsSeq(TLS))[t]]]
               /\ simPhase' = JointAction(action_idx, TlsSeq(TLS))
               /\ pc' = "sim"
               /\ UNCHANGED hist
    /\ sub' = 0
    /\ UNCHANGED <<ep, steps, eps, q_tables, q_shape, file, ckpt,
                   sessionOpen, sessions, halts, waits, collisions, simTime>>
    /\ ProcUnchanged

\* lines 107-112: one iteration of the inner loop
RunSimStep ==
    /\ variant = "run" /\ pc = "sim"
    /\ SimStep(FALSE)
    /\ steps' = steps + 1 /\ sub' = sub + 1
    /\ pc' = IF steps + 1 >= MAX_STEPS \/ sub + 1 >= DECISION_INTERVAL_run
             THEN "update" ELSE "sim"
    /\ UNCHANGED <<ep, eps, q_tables, q_shape, agents, file, ckpt, sessionOpen, sessions, hist>>
    /\ ProcUnchanged

\* lines 115-117: the state for the next decision and its row
RunObserve ==
    /\ variant = "run" /\ pc = "update"
    /\ q_tables' = [q_tables EXCEPT
                      ![0] = ensure_q(@, get_global_state(halts), JointCount(TlsSeq(TLS)))]
    /\ agents' = [t \in TLS |-> [agents[t] EXCEPT !.state_key = get_global_state(halts)]]
    /\ pc' = IF steps < MAX_STEPS THEN "decide" ELSE "ep_end"
    /\ UNCHANGED <<ep, steps, sub, eps, q_shape, file, ckpt, hist>>
    /\ SimUnchanged /\ ProcUnchanged

\* lines 119-120
RunClose ==
    /\ variant = "run" /\ pc = "ep_end"
    /\ SimClose
    /\ pc' = "done"
    /\ UNCHANGED <<ep, steps, sub, eps, q_tables, q_shape, agents, file, ckpt, hist>>
    /\ ProcUnchanged

(*************** run_qlearning_tls_multi_tables.py : run() *****************)
\* (mutation of runm_get_local_state: the lanes in the order listed, not sorted)
runm_get_local_stateListed(h, t) ==
    LET ls == Dedupe(ControlledLanes(t))
    IN tuple_key([i \in DOMAIN ls |-> discretize(h[ls[i]], STATE_BINS_runm)])

\* get_local_state(tls_id), lines 40-43
runm_get_local_state(h, t) ==
    LET ls == SortedSeq(Range(ControlledLanes(t)))
    IN tuple_key([i \in DOMAIN ls |-> discretize(h[ls[i]], STATE_BINS_runm)])

\* choose_action(q_table, state, num_actions), lines 45-56: the actions it can return
runm_choose_action(q_table, state, num_actions) ==
    IF state \notin DOMAIN q_table THEN 0..(num_actions - 1)      \* random.randrange
    ELSE IF q_table[state] = <<>> THEN {}                         \* max([]) raises
    ELSE {argmax(q_table[state])}

\* q_tables[tls_id] on defaultdict(q_table_factory): a missing table is created
runm_tables(tables) ==
    [t \in DOMAIN tables \cup TLS |-> IF t \in DOMAIN tables THEN tables[t] ELSE NoRows]

\* lines 61-69: a missing file is reported and run() returns; other failures of
\* pickle.load are not caught; defaultdict(q_table_factory, []) is an empty dict
RunmLoad ==
    /\ variant = "runm" /\ pc = "load"
    /\ LET r == PickleLoad(file, FALSE)
       IN IF ~file.exists
          THEN /\ pc' = "done"
               /\ hist' = [hist EXCEPT !.loaded = "absent", !.reported = TRUE]
               /\ UNCHANGED <<q_tables, q_shape>>
          ELSE IF ~r.ok
          THEN /\ pc' = "error"
               /\ hist' = [hist EXCEPT !.loaded = "error", !.reported = TRUE]
               /\ UNCHANGED <<q_tables, q_shape>>
          ELSE /\ q_tables' = r.tables /\ q_shape' = "dict" /\ pc' = "ep_start"
               /\ hist' = [hist EXCEPT !.loaded = "ok", !.loadedTables = r.tables]
    /\ UNCHANGED <<ep, steps, sub, eps, agents, file, ckpt>>
    /\ SimUnchanged /\ ProcUnchanged

\* lines 71-92: start SUMO, every agent's first state
RunmInit ==
    /\ variant = "runm" /\ pc = "ep_start"
    /\ SimStart
    /\ ep' = 1
    /\ agents' = [t \in TLS |->
                    [NoAgent EXCEPT !.state_key = runm_get_local_state([l \in Lanes |-> 0], t)]]
    /\ steps' = 0 /\ sub' = 0
    /\ pc' = IF 0 < MAX_STEPS THEN "decide" ELSE "ep_end"
    /\ UNCHANGED <<eps, q_tables, q_shape, file, ckpt, hist>>
    /\ ProcUnchanged

\* lines 96-98: every agent picks its action and commands it
RunmDecide ==
    /\ variant = "runm" /\ pc = "decide"
    /\ q_tables' = runm_tables(q_tables)
    /\ \E act \in [TLS -> Phases] :
         /\ \A t \in TLS : act[t] \in runm_choose_action(runm_tables(q_tables)[t],
                                                         agents[t].state_key, n_actions(t))
         /\ agents' = [t \in TLS |-> [agents[t] EXCEPT !.action = act[t]]]
         /\ simPhase' = act
    /\ pc' = "sim" /\ sub' = 0
    /\ UNCHANGED <<ep, steps, eps, q_shape, file, ckpt, hist,
                   sessionOpen, sessions, halts, waits, collisions, simTime>>
    /\ ProcUnchanged

\* lines 101-117: one iteration of the inner loop
RunmSimStep ==
    /\ variant = "runm" /\ pc = "sim"
    /\ SimStep(FALSE)
    /\ steps' = steps + 1 /\ sub' = sub + 1
    /\ pc' = IF steps + 1 >= MAX_STEPS \/ sub + 1 >= DECISION_INTERVAL_runm
             THEN "update" ELSE "sim"
    /\ UNCHANGED <<ep, eps, q_tables, q_shape, agents, file, ckpt, sessionOpen, sessions, hist>>
    /\ ProcUnchanged

\* lines 120-121: every agent's state for the next decision
RunmObserve ==
    /\ variant = "runm" /\ pc = "update"
    /\ agents' = [t \in TLS |-> [agents[t] EXCEPT !.state_key = runm_get_local_state(halts, t)]]
    /\ pc' = IF steps < MAX_STEPS THEN "decide" ELSE "ep_end"
    /\ UNCHANGED <<ep, steps, sub, eps, q_tables, q_shape, file, ckpt, hist>>
    /\ SimUnchanged /\ ProcUnchanged

\* lines 123-124
RunmClose ==
    /\ variant = "runm" /\ pc = "ep_end"
    /\ SimClose
    /\ pc' = "done"
    /\ UNCHANGED <<ep, steps, sub, eps, q_tables, q_shape, agents, file, ckpt, hist>>
    /\ ProcUnchanged

(********************** failures and interruption **************************)
\* the loop positions at which the script calls the simulator
InLoop == pc \in {"decide", "sim", "update"}

\* A simulator call inside the RUNNING loop raises (connection lost, SUMO error).
\* main.py, main_new.py, main_fuzzy.py: __main__ catches KeyboardInterrupt only,
\* the exception ends the process with a traceback and nothing closes the session.
\* train_gemini_version.py: __main__ prints it and its finally clause closes.
TraciFailure ==
    /\ InLoop /\ sessionOpen
    /\ pc' = "error"
    /\ sessionOpen' = (variant # "gem")
    /\ hist' = [hist EXCEPT !.reported = TRUE]
    /\ UNCHANGED <<ep, steps, sub, eps, q_tables, q_shape, agents, file, ckpt,
                   sessions, simPhase, halts, waits, collisions, simTime>>
    /\ ProcUnchanged

\* Ctrl-C while the loop runs: the trainers and the fuzzy controller end up in a
\* handler that calls traci.close(); the inference runners have no handler
Interrupt ==
    /\ InLoop
    /\ pc' = "interrupted"
    /\ sessionOpen' = (variant \in {"run", "runm"} /\ sessionOpen)
    /\ UNCHANGED <<ep, steps, sub, eps, q_tables, q_shape, agents, file, ckpt, hist,
                   sessions, simPhase, halts, waits, collisions, simTime>>
    /\ ProcUnchanged

(*************************** the process ***********************************)
Variants == {"main", "new", "gem", "fz", "run", "runm"}
\* a table file left by an earlier run: one learned row, for the initial state of TLS 1
TrainedTables(v) ==
    IF v = "main" THEN (0 :> (state_key(<<0>>) :> <<-100, 0>>))
    ELSE IF v = "new" THEN (1 :> (state_key(<<0, 0>>) :> <<-100, 0>>))
    ELSE (1 :> (tuple_key(<<0>>) :> <<-100, 0>>))
TrainedFile(v) ==
    Bytes(IF v = "main" THEN PickleDumpFlat(TrainedTables(v)) ELSE PickleDump(TrainedTables(v)))

\* what the script may find at the path of its table file
InitialFiles(v) ==
    {Absent, Garbage, ListFile,
     TrainedFile(IF v = "run" THEN "main" ELSE IF v = "runm" THEN "gem" ELSE v)}

Init ==
    /\ variant \in Variants
    /\ cfg \in (IF variant = "fz" THEN FuzzyConfigs
               ELSE IF variant \in {"run", "runm"} THEN InferConfigs ELSE Configs)
    /\ pc = (IF variant = "fz" THEN "ep_start" ELSE "load")
    /\ ep = 0 /\ steps = 0 /\ sub = 0
    /\ eps = EPSILON_START
    /\ q_tables = NoTables /\ q_shape = "dict"
    /\ agents = NoAgents
    /\ file \in (IF variant = "fz" THEN {Absent} ELSE InitialFiles(variant))
    /\ ckpt = Absent
    /\ sessionOpen = FALSE /\ sessions = 0
    /\ simPhase = [t \in TLS |-> 0]
    /\ halts = [l \in Lanes |-> 0]
    /\ waits = [l \in Lanes |-> 0]
    /\ collisions = 0 /\ simTime = 0
    /\ hist = [NoHist EXCEPT !.startFile = file]

\* the memory of a process that is gone
MemoryLost ==
    /\ ep' = 0 /\ steps' = 0 /\ sub' = 0 /\ eps' = EPSILON_START
    /\ q_tables' = NoTables /\ q_shape' = "dict" /\ agents' = NoAgents

\* the process is killed (SIGKILL, power loss): no handler runs
Kill ==
    /\ ~Ended
    /\ pc' = "killed"
    /\ MemoryLost
    /\ hist' = [hist EXCEPT !.killedAt = pc]
    /\ UNCHANGED <<file, ckpt>>
    /\ SimUnchanged /\ ProcUnchanged

Next ==
    \/ NewLoad \/ NewEpisodeInit \/ NewDecide \/ NewSimStep \/ NewUpdate
    \/ NewEpisodeEnd \/ NewCkptOpen \/ NewCkptWrite \/ NewFinalOpen \/ NewFinalWrite
    \/ MainLoad \/ MainEpisodeInit \/ MainDecide \/ MainSimStep \/ MainUpdate
    \/ MainEpisodeEnd \/ MainSaveOpen \/ MainSaveWrite
    \/ GemLoad \/ GemEpisodeInit \/ GemDecide \/ GemSimStep \/ GemUpdate
    \/ GemEpisodeEnd \/ GemSaveOpen \/ GemSaveWrite
    \/ FzInit \/ FzDecide \/ FzSimStep \/ FzClose
    \/ RunLoad \/ RunInit \/ RunDecide \/ RunSimStep \/ RunObserve \/ RunClose
    \/ RunmLoad \/ RunmInit \/ RunmDecide \/ RunmSimStep \/ RunmObserve \/ RunmClose
    \/ TraciFailure \/ Interrupt \/ Kill

Spec == Init /\ [][Next]_vars

(********************* the state encoders on their own *********************)
\* the orders in which getControlledLanes may list the lanes 1 and 2 of a TLS
Listings == { <<1, 2>>, <<2, 1>>, <<1, 2, 1>>, <<2, 2, 1>> }
Counts   == 0..MaxCount
EncConfigs == { Scenario(0, 0, {1}, (1 :> L), TwoPhases({1}), FALSE) : L \in Listings }

\* the key a trainer's encoder builds from halting counts h, the controlled-lane
\* list and (main_new only) the phase
Encode(v, h, lanes, phase) ==
    IF v = "main" THEN state_key(make_state_from_lane_counts(h, Dedupe(lanes)))
    ELSE IF v = "new" THEN state_key(get_state(h, group_lanes(Dedupe(lanes)), phase))
    ELSE local_state_of(h, lanes)

EncInit ==
    /\ variant \in {"main", "new", "gem"}
    /\ cfg \in EncConfigs
    /\ pc = "observe"
    /\ ep = 0 /\ steps = 0 /\ sub = 0
    /\ eps = EPSILON_START
    /\ q_tables = NoTables /\ q_shape = "dict"
    /\ agents = NoAgents
    /\ file = Absent /\ ckpt = Absent
    /\ sessionOpen = TRUE /\ sessions = 1
    /\ simPhase = [t \in TLS |-> 0]
    /\ halts \in [Lanes -> Counts]
    /\ waits = [l \in Lanes |-> 0]
    /\ collisions = 0 /\ simTime = 0
    /\ hist = NoHist

\* the trainer encodes what the simulator reports
EncEncode ==
    /\ pc = "observe"
    /\ agents' = [t \in TLS |->
                    [NoAgent EXCEPT !.state_key =
                        Encode(variant, halts, ControlledLanes(t), simPhase[t])]]
    /\ pc' = "encoded"
    /\ UNCHANGED <<variant, cfg, ep, steps, sub, eps, q_tables, q_shape, file, ckpt,
                   sessionOpen, sessions, simPhase, halts, waits, collisions, simTime, hist>>

\* a simulation step: the count of one lane changes, the phase may advance
EncStep ==
    /\ pc = "encoded"
    /\ \E l \in Lanes, c \in Counts : halts' = [halts EXCEPT ![l] = c]
    /\ simPhase' \in { f \in [TLS -> Phases] : \A t \in TLS : f[t] \in NextPhases(simPhase[t]) }
    /\ agents' = NoAgents
    /\ pc' = "observe"
    /\ UNCHANGED <<variant, cfg, ep, steps, sub, eps, q_tables, q_shape, file, ckpt,
                   sessionOpen, sessions, waits, collisions, simTime, hist>>

EncNext == EncEncode \/ EncStep

SpecEnc == EncInit /\ [][EncNext]_vars


(******************************* C1 ****************************************)
\* C1: for every agent, two commands that change the agent's phase are never
\* issued less than MIN_GREEN simulated steps apart (main_new.train and
\* main_fuzzy.simulate_with_fuzzy_logic).
MinGreenApart ==
    (variant \in {"new", "fz"}) =>
        \A t \in TLS :
            (hist.chgPrev[t] >= 0 /\ hist.chgLast[t] >= 0)
                => hist.chgLast[t] - hist.chgPrev[t] >= MIN_GREEN

\* an agent has changed its phase twice in one run, exactly MIN_GREEN steps apart
TwoChangesSeen ==
    /\ variant \in {"new", "fz"}
    /\ \E t \in TLS : hist.chgPrev[t] >= 0 /\ hist.chgLast[t] = hist.chgPrev[t] + MIN_GREEN

(******************************* C2 ****************************************)
\* C2: in train_gemini_version.train, once a simulation step has reported a
\* collision, no further simulation step, action selection with phase command,
\* or regular Q-update is executed in that episode.
CollisionEndsEpisode ==
    (variant = "gem" /\ hist.collidedEp # 0) =>
        /\ hist.postSteps = 0 /\ hist.postDecides = 0 /\ hist.postUpdates = 0
        /\ pc \in {"update", "error", "interrupted", "killed"}

\* a collision in the middle of a decision interval, and the episode is over
CollisionMidInterval ==
    /\ variant = "gem" /\ hist.collidedEp # 0 /\ pc = "error"
    /\ sub < DECISION_INTERVAL_gem /\ steps < MAX_STEPS

(******************************* C3 ****************************************)
\* C3: after a collision every agent's table differs from the table before the
\* colliding step in exactly the entry of its most recent (state, action) pair,
\* which holds one update with reward -COLLISION_PENALTY and next-state value 0.
PenaltyTable(t) ==
    LET before == hist.qBefore[t]
        old == before[agents[t].prev_state][agents[t].action + 1]
    IN SetQ(before, agents[t].prev_state, agents[t].action,
            old + (ALPHA_gem[1] * (- COLLISION_PENALTY * Scale - old)) \div ALPHA_gem[2])

CollisionPenaltyOnce ==
    (variant = "gem" /\ hist.collidedEp # 0 /\ pc \in {"update", "error", "interrupted"}) =>
        \A t \in TLS : q_tables[t] = PenaltyTable(t)

\* two agents were penalised and the run is over
TwoAgentsPenalised ==
    /\ variant = "gem" /\ hist.collidedEp # 0 /\ pc = "error"
    /\ Cardinality(TLS) = 2
    /\ \A t \in TLS : q_tables[t] # hist.qBefore[t]

(******************************* C4 ****************************************)
\* C4: a run of train_gemini_version.train that has ended after a collision in
\* an episode which was not the last one has advanced the episode counter,
\* decayed epsilon and started a further simulator session.
CollisionContinues ==
    (variant = "gem" /\ pc \in {"done", "error"}
       /\ hist.collidedEp # 0 /\ hist.collidedEp < NUM_EPISODES) =>
        /\ ep > hist.collidedEp
        /\ eps < EPSILON_START
        /\ sessions > hist.collidedEp

(******************************* C5 ****************************************)
\* C5: when a trainer's run that loaded or created its tables has ended
\* (normally, by collision, or by an exception raised inside the RUNNING loop)
\* no simulator session is open.
SessionClosedOnExit ==
    (variant \in {"main", "new", "gem"} /\ pc \in {"done", "error", "interrupted"}
       /\ hist.loaded \in {"ok", "absent"} /\ q_shape = "dict")
        => ~sessionOpen

(******************************* C6 ****************************************)
\* what a load of file f observes
Observed(f) == IF ~f.exists THEN [ok |-> TRUE, shape |-> "absent", tables |-> NoTables]
               ELSE PickleLoad(f, variant = "main")

SavedFile == IF hist.saveTarget = "ckpt" THEN ckpt ELSE file

\* C6: if the process is killed during a save, a load of the file observes the
\* complete earlier snapshot or the complete new one.
SaveAtomic ==
    (pc = "killed" /\ hist.killedAt \in {"psave_write", "final_write", "ckpt_write"}) =>
        Observed(SavedFile) \in {Observed(hist.saveOld), Observed(hist.saveNew)}

(******************************* C7 ****************************************)
\* C7: loading the file the trainer has just saved returns the tables in memory:
\* the same table ids, the same keys, the same vectors.
RoundTrip ==
    /\ (variant \in {"main", "new", "gem"} /\ pc = "done" /\ ep >= 1) =>
          LET r == PickleLoad(file, variant = "main")
          IN r.ok /\ r.shape = "dict" /\ r.tables = q_tables
    /\ (variant = "new" /\ pc = "ep_start" /\ ep >= 1 /\ ep % SAVE_INTERVAL = 0) =>
          LET r == PickleLoad(ckpt, FALSE)
          IN r.ok /\ r.shape = "dict" /\ r.tables = q_tables

\* a finished run has saved a table with several rows and a learned score
LearnedTablesSaved ==
    /\ variant \in {"main", "new", "gem"} /\ pc = "done" /\ ep >= 1
    /\ \E t \in DOMAIN q_tables :
          /\ Cardinality(DOMAIN q_tables[t]) >= 2
          /\ \E k \in DOMAIN q_tables[t] : q_tables[t][k] # ZeroRow(Len(q_tables[t][k]))

(******************************* C8 ****************************************)
\* C8: when main_new.train is stopped after it has written a periodic
\* checkpoint, the tables a restarted process begins with are those of the
\* most recent checkpoint.
ResumesFromCheckpoint ==
    (variant = "new" /\ pc \in {"killed", "interrupted", "error"}
       /\ ckpt.exists /\ PickleLoad(ckpt, FALSE).ok) =>
        StartTables(file, FALSE).tables = PickleLoad(ckpt, FALSE).tables

(******************************* C9 ****************************************)
EmptyTables == IF variant = "main" THEN (0 :> NoRows) ELSE NoTables

\* C9: with no table file at start there is no start-up error, the tables are
\* empty when the first episode begins, and at its first decision each agent's
\* table holds just the all-zero row of its first state.
MissingFileStartsEmpty ==
    (variant \in {"main", "new", "gem"} /\ hist.startFile = Absent) =>
        /\ hist.loaded \in {"none", "absent"}
        /\ (pc = "error" => ep >= 1)
        /\ (pc = "ep_start" /\ ep = 0) => q_tables = EmptyTables
        /\ (pc = "decide" /\ ep = 1 /\ steps = 0) =>
              IF variant = "main"
              THEN q_tables = (0 :> (agents[tls_id].state_key :> ZeroRow(n_actions(tls_id))))
              ELSE q_tables = [t \in TLS |-> (agents[t].state_key :> ZeroRow(n_actions(t)))]

\* the first episode runs although there was no file
FirstEpisodeWithoutFile ==
    /\ variant \in {"main", "new", "gem"} /\ hist.startFile = Absent
    /\ pc = "decide" /\ ep = 1 /\ steps = 0

(******************************* C10 ***************************************)
\* the file found at start is no pickle, or a pickle of something else than a dict
CorruptAtStart ==
    /\ hist.startFile.exists
    /\ LET r == PickleLoad(hist.startFile, variant = "main") IN ~r.ok \/ r.shape # "dict"

\* C10: with a corrupt table file at start the trainer reports an error and
\* halts before any episode runs, and never writes the file.
CorruptFileHalts ==
    (variant \in {"main", "new", "gem"} /\ CorruptAtStart) =>
        /\ sessions = 0
        /\ pc \in {"load", "error", "killed"}
        /\ (pc = "error" => hist.reported)
        /\ file = hist.startFile

(******************************* C11 ***************************************)
\* the agents a trainer controls, and the table of an agent
Controlled == IF variant = "main" THEN {tls_id} ELSE TLS
TableOf(t) == IF variant = "main" THEN 0 ELSE t
Training   == variant \in {"main", "new", "gem"}

\* the row of key k in the table of agent t was in the loaded file
RowLoaded(t, k) ==
    /\ TableOf(t) \in DOMAIN hist.loadedTables
    /\ k \in DOMAIN hist.loadedTables[TableOf(t)]

\* the rows about to be read (the agent's state at a decision and at an update,
\* its previous state during the interval of train_gemini_version) exist, and
\* have one score per action unless they came from the file
ReadRowsExist ==
    (Training /\ pc \in {"decide", "sim", "update"}) =>
        \A t \in Controlled :
            LET k == IF variant = "gem" /\ pc # "decide"
                     THEN agents[t].prev_state ELSE agents[t].state_key
            IN /\ TableOf(t) \in DOMAIN q_tables
               /\ k \in DOMAIN q_tables[TableOf(t)]
               /\ Len(q_tables[TableOf(t)][k]) = n_actions(t) \/ RowLoaded(t, k)

\* a row that a step of the training loop adds is all-zero, one score per action
NewRowsZero ==
    (Training /\ pc \in {"ep_start", "decide", "sim", "update"} /\ pc' # "killed") =>
        \A t \in Controlled :
            TableOf(t) \in DOMAIN q_tables' =>
                \A k \in DOMAIN q_tables'[TableOf(t)] :
                    (TableOf(t) \notin DOMAIN q_tables \/ k \notin DOMAIN q_tables[TableOf(t)])
                        => q_tables'[TableOf(t)][k] = ZeroRow(n_actions(t))

\* C11: every row read during training exists when it is read, and was either
\* in the loaded file or created as an all-zero vector with one score per
\* action of the agent; a row holds zeros until it is written.
RowsZeroBeforeWrite == []ReadRowsExist /\ [][NewRowsZero]_vars

\* a training run without a file has created a second row during an update:
\* one row is still all-zero, another one has been written
RowCreatedByUpdate ==
    /\ Training /\ hist.startFile = Absent /\ pc = "decide" /\ steps > 0
    /\ \E t \in Controlled :
          /\ \E k \in DOMAIN q_tables[TableOf(t)] :
                q_tables[TableOf(t)][k] = ZeroRow(n_actions(t)) /\ n_actions(t) > 0
          /\ \E k \in DOMAIN q_tables[TableOf(t)] :
                q_tables[TableOf(t)][k] # ZeroRow(n_actions(t))

(******************************* C12 ***************************************)
\* the state an agent observes after the interval, its state at the decision,
\* the reward of the interval, and the constants of the running trainer
ObservedKey(t) ==
    IF variant = "main" THEN make_state_key(halts)
    ELSE IF variant = "new" THEN state_key(get_state(halts, NewGroups(t), simPhase[t]))
    ELSE get_local_state(halts, t)
DecisionKey(t) == IF variant = "gem" THEN agents[t].prev_state ELSE agents[t].state_key
IntervalReward(t) ==
    IF variant = "main" THEN MainReward
    ELSE IF variant = "new" THEN NewReward(t) ELSE GemReward(t)
Alpha == IF variant = "main" THEN ALPHA_main ELSE IF variant = "new" THEN ALPHA_new ELSE ALPHA_gem
Gamma == IF variant = "main" THEN GAMMA_main ELSE IF variant = "new" THEN GAMMA_new ELSE GAMMA_gem

\* a regular update: the entry of (s, a) becomes old + ALPHA * (reward + GAMMA * m - old),
\* m being the largest score of the row of s' before the write (zero if it has none)
UpdateRule ==
    (Training /\ pc = "update" /\ pc' \in {"decide", "ep_end"}) =>
        \A t \in Controlled :
            LET T    == q_tables[TableOf(t)]
                sk   == DecisionKey(t)
                a    == agents[t].action
                nk   == ObservedKey(t)
                old  == T[sk][a + 1]
                m    == IF nk \in DOMAIN T THEN SeqMax(T[nk]) ELSE 0
                new  == old + (Alpha[1] * (IntervalReward(t) + (Gamma[1] * m) \div Gamma[2] - old))
                                \div Alpha[2]
            IN /\ q_tables'[TableOf(t)][sk][a + 1] = new
               /\ agents'[t].state_key = nk

\* C12: each regular Q-update sets Q(s,a) to old + ALPHA * (reward + GAMMA *
\* max Q(s',.) - old) with the row of s' taken before the write; with Q = (0,0),
\* reward 1, alpha 0.5, gamma 0.9 and an all-zero next row the result is 0.5.
QUpdateRule ==
    /\ [][UpdateRule]_vars
    /\ [](QUpdate(0, Scale, SeqMax(ZeroRow(2)), <<5, 10>>, <<9, 10>>) = Scale \div 2)

\* an update of train_gemini_version in which the next state was the state of
\* the decision has written a score
SelfTransitionUpdated ==
    /\ variant = "gem" /\ hist.startFile = Absent /\ pc = "decide" /\ steps > 0
    /\ \E t \in TLS :
          /\ agents[t].prev_state = agents[t].state_key
          /\ q_tables[t][agents[t].prev_state][agents[t].action + 1] # 0

(******************************* C13 ***************************************)
\* d is the bin of count c: the smallest 0-based index of a threshold not below c,
\* or the number of thresholds
IsBinOf(d, c, bins) ==
    /\ d \in 0..Len(bins)
    /\ \A j \in 1..d : c > bins[j]
    /\ d < Len(bins) => c <= bins[d + 1]

\* C13: discretize(c) is the smallest index i with c <= t_i, or k if c exceeds
\* every threshold; it lies in 0..k and is monotone in c; the keys the encoders
\* build hold these bins, and thresholds [0,1,3] encode counts [0,2] as (0,2).
DiscretizeIsBin ==
    /\ \A bins \in {STATE_BINS_main, STATE_BINS_new, STATE_BINS_gem} :
          \A c \in Counts :
             /\ IsBinOf(discretize(c, bins), c, bins)
             /\ \A e \in Counts : e <= c => discretize(e, bins) <= discretize(c, bins)
    /\ (pc = "encoded" /\ variant = "main") =>
          LET ls == Dedupe(ControlledLanes(1))
              k  == agents[1].state_key.v
          IN /\ Len(k) = Len(ls)
             /\ \A i \in DOMAIN ls : IsBinOf(k[i], halts[ls[i]], STATE_BINS_main)
             /\ (ls = <<1, 2>> /\ halts[1] = 0 /\ halts[2] = 2) => k = <<0, 2>>
    /\ (pc = "encoded" /\ variant = "gem") =>
          LET k == agents[1].state_key.v
          IN Len(k) = 2 /\ \A i \in 1..2 : IsBinOf(k[i], halts[i], STATE_BINS_gem)

\* main.py has encoded the counts [0, 2] of the lanes 1 and 2 as (0, 2)
ExampleEncoded ==
    /\ variant = "main" /\ pc = "encoded" /\ ControlledLanes(1) = <<1, 2>>
    /\ halts[1] = 0 /\ halts[2] = 2
    /\ agents[1].state_key = state_key(<<0, 2>>)

(******************************* C14 ***************************************)
\* C14: the key an encoder has built for an observation is the key it builds
\* for the same halting counts under every other listing of the same lanes.
OrderStable ==
    pc = "encoded" =>
        \A L \in Listings : Encode(variant, halts, L, simPhase[1]) = agents[1].state_key

(******************************* C15 ***************************************)
\* EPSILON_DECAY of the running trainer
Decay == EPSILON_DECAY(IF variant = "main" THEN DECAY_main
                       ELSE IF variant = "new" THEN DECAY_new ELSE DECAY_gem)

\* the exploration rate after n full episodes
RECURSIVE EpsilonAfter(_)
EpsilonAfter(n) ==
    IF n = 0 THEN EPSILON_START
    ELSE LET e == (EpsilonAfter(n - 1) * Decay[1]) \div Decay[2]
         IN IF e < EPSILON_END THEN EPSILON_END ELSE e

\* the episodes completed: the current one counts once its end has been processed
FullEpisodes ==
    IF pc \in {"decide", "sim", "update", "ep_end", "error", "interrupted"}
    THEN IF ep = 0 THEN 0 ELSE ep - 1
    ELSE ep

EpsilonByEpisodes ==
    (Training /\ pc # "killed") =>
        /\ eps = EpsilonAfter(FullEpisodes)
        /\ eps >= EPSILON_END
        /\ (cfg.decay99 /\ pc = "done") => eps = EPSILON_END

EpsilonStep ==
    (Training /\ pc' # "killed") =>
        /\ eps' <= eps
        /\ eps = EPSILON_END => eps' = EPSILON_END

\* C15: the exploration rate is max(EPSILON_END, epsilon * EPSILON_DECAY) applied
\* once per full episode; it never increases and never falls below EPSILON_END;
\* from 1.0 with decay 0.99 and floor 0.05 it reaches exactly 0.05 and stays.
EpsilonDecays == []EpsilonByEpisodes /\ [][EpsilonStep]_vars

\* with decay 0.99 the rate has reached the floor before the last episode
FloorReached ==
    /\ Training /\ cfg.decay99 /\ pc = "ep_start"
    /\ ep >= 1 /\ ep < NUM_EPISODES /\ eps = EPSILON_END

(******************************* C16 ***************************************)
Inference == variant \in {"run", "runm"}

\* C16: during a run of an inference runner the tables in memory are the
\* tables the load returned: no row, entry or table is added, removed or changed.
InferencePure ==
    (Inference /\ hist.loaded = "ok" /\ pc # "killed") => q_tables = hist.loadedTables

(******************************* C17 ***************************************)
\* the action an agent is to apply in its current state: the lowest index of
\* the largest score of its row, an absent row counting as all-zero
GreedyAction(t) ==
    IF variant = "run"
    THEN LET T == q_tables[0]
             k == agents[t].state_key
             row == IF k \in DOMAIN T THEN T[k] ELSE ZeroRow(JointCount(TlsSeq(TLS)))
         IN JointAction(argmax(row), TlsSeq(TLS))[t]
    ELSE LET k == agents[t].state_key
             row == IF t \in DOMAIN q_tables /\ k \in DOMAIN q_tables[t]
                    THEN q_tables[t][k] ELSE ZeroRow(n_actions(t))
         IN argmax(row)

\* C17: the action an inference runner has applied for an agent is the lowest
\* index of the largest score of the row of the agent's state, an unseen state
\* counting as an all-zero row.
InferenceGreedy ==
    (Inference /\ pc = "sim") =>
        \A t \in TLS : /\ agents[t].action = GreedyAction(t)
                       /\ sub = 0 => simPhase[t] = GreedyAction(t)

(******************************* C18 ***************************************)
\* an intersection the trainer controls reports zero phases
ZeroPhases == \E t \in Controlled : n_actions(t) = 0

\* C18: with an intersection of zero phases the trainer never gets as far as
\* selecting an action, commanding a phase, stepping the simulation inside the
\* decision loop or updating a table: it stops with an error before.
ZeroPhasesAbortEarly ==
    (Training /\ ZeroPhases) =>
        /\ ~hist.selected /\ ~hist.commanded
        /\ steps = 0
        /\ pc \in {"load", "ep_start", "decide", "error", "interrupted", "killed"}
        /\ (pc = "error" => hist.reported)

(******************************* C19 ***************************************)
\* C19: in main.train and train_gemini_version.train too, two commands that
\* change an agent's phase are never issued less than MIN_GREEN simulated
\* steps apart: a choice made earlier is overridden by the active phase.
MinGreenEverywhere ==
    (variant \in {"main", "gem"}) =>
        \A t \in Controlled :
            (hist.chgPrev[t] >= 0 /\ hist.chgLast[t] >= 0)
                => hist.chgLast[t] - hist.chgPrev[t] >= MIN_GREEN

(******************************* C20 ***************************************)
\* C20: a file a trainer has finished writing holds, besides the tables, an
\* element that carries the index of the episode at which it was written.
CheckpointHasEpisode ==
    (Training /\ hist.saveTarget # "none" /\ SavedFile = hist.saveNew) =>
        \E i \in DOMAIN SavedFile.data :
            SavedFile.data[i].op = "EPISODE" /\ SavedFile.data[i].id = ep

(******************************* C21 ***************************************)
\* the reward of the interval without the penalty for a phase change
CostReward(t) ==
    IF variant = "main"
    THEN (agents[tls_id].prev_total_halts - HaltSum(halts, lane_ids)) * Scale
    ELSE IF variant = "new"
    THEN NewReward(t) + PHASE_CHANGE_PENALTY * agents[t].phase_changed
    ELSE get_local_reward(t, agents[t].prev_waits)

\* what the reward of the interval loses to the penalty for a phase change
ChurnTerm(t) == CostReward(t) - IntervalReward(t)

\* the decision that opened the running interval commanded a phase that
\* differs from the agent's phase at that moment
SwitchedNow(t) == hist.chgLast[t] = steps - sub

\* C21: when the tables are updated at the end of a decision cycle, an agent's
\* reward is reduced by PHASE_CHANGE_PENALTY if the command of that cycle changed
\* its phase, and is not reduced by it otherwise.
ChurnPenaltyOnChange ==
    (Training /\ pc = "update" /\ sessionOpen) =>
        \A t \in Controlled :
            ChurnTerm(t) = IF SwitchedNow(t) THEN PHASE_CHANGE_PENALTY ELSE 0

(******************************* C22 ***************************************)
\* C22: in train_gemini_version.train the phase an agent chose is the phase of
\* its intersection when the simulation of the interval begins, whether its
\* index is even or odd; it is the action whose score the update will write.
ChosenPhaseApplied ==
    (variant = "gem" /\ pc = "sim" /\ sub = 0) =>
        \A t \in TLS : simPhase[t] = agents[t].action

(******************************* C23 ***************************************)
\* the collision penalty an interval's reward contains (train_gemini_version)
CollisionTerm == IF variant = "gem" /\ collisions > 0
                 THEN COLLISION_PENALTY * Scale * collisions ELSE 0

\* C23: apart from the penalties for a phase change and for collisions, the
\* reward an agent receives at an update is the cost on its own lanes at its
\* previous observation minus that cost now, in each of the three trainers.
RewardIsCostDifference ==
    (Training /\ pc = "update" /\ sessionOpen) =>
        \A t \in Controlled :
            CostReward(t) + CollisionTerm
                = (hist.costSeen[t] - LaneCost(halts, waits, t)) * Scale

(******************************* C24 ***************************************)
\* C24: when a trainer has read the agents' initial states and cost snapshots
\* and is about to take the first decision of an episode, the simulator has
\* taken exactly one step since its session was started.
OneStepBeforeObserving ==
    (Training /\ pc = "decide" /\ steps = 0) => simTime = 1

(******************************* C25 ***************************************)
\* what an agent's decision leaves behind: its action and the record of its change
Decided(t) == <<agents[t].action, agents[t].phase_changed, agents[t].last_change,
                hist.chgLast[t]>>

\* a step of main_new.train or train_gemini_version.train: the step that ends
\* the decisions has served every agent and has sent it its phase, without the
\* simulator advancing; a simulation step decides and commands nothing, and no
\* decision comes between two simulation steps of an interval
BatchStep ==
    (variant \in {"new", "gem"}) =>
        /\ (pc = "decide" /\ pc' = "sim") =>
              /\ simTime' = simTime
              /\ \A t \in TLS :
                    /\ agents'[t].action \in
                          (IF variant = "new" THEN NewChoices(t)
                           ELSE choose_action(q_tables[t], agents[t].state_key,
                                              n_actions(t), eps))
                    /\ (variant = "new" \/ GemCommands(t, agents'[t].action))
                          => simPhase'[t] = agents'[t].action
                    /\ SwitchedNow(t)' <=> simPhase'[t] # simPhase[t]
        /\ simTime' # simTime =>
              /\ pc = "sim" \/ pc = "ep_start"
              /\ pc = "sim" => \A t \in TLS : Decided(t)' = Decided(t)
        /\ (pc = "sim" /\ sub' > 0) => pc' # "decide"
        /\ (\E t \in TLS : Decided(t)' # Decided(t)) => pc \in {"ep_start", "decide"} \/ pc' = "killed"

\* C25: in every decision cycle all agents' phase commands are issued together
\* before the simulator advances, and between the first and the last simulation
\* step of an interval no agent selects an action or commands a phase.
DecisionsBatched == [][BatchStep]_vars

\* two agents of train_gemini_version have selected different actions in one
\* batch, and the simulator is in the middle of the interval that follows
BatchOfTwoUnderWay ==
    /\ variant = "gem" /\ Cardinality(TLS) = 2
    /\ pc = "sim" /\ sub = 2 /\ hist.selected
    /\ \E t, u \in TLS : agents[t].action # agents[u].action

(******************************* C26 ***************************************)
\* DECISION_INTERVAL of the running trainer
Interval == IF variant = "main" THEN DECISION_INTERVAL_main
            ELSE IF variant = "new" THEN DECISION_INTERVAL_new ELSE DECISION_INTERVAL_gem

\* simulation steps taken before the decision loop of an episode is entered
StepsAtEntry == IF variant = "main" THEN 1 ELSE 0

\* the running cycle was cut short: a step reported a collision (and closed the
\* session), or the step cap was reached
CutShort == (variant = "gem" /\ collisions > 0) \/ steps >= MAX_STEPS

\* C26: between the phase commands of a decision cycle and its Q-updates the
\* simulator advances by exactly DECISION_INTERVAL single steps, unless a
\* collision or the step cap cuts the cycle short: never more, never fewer.
ExactInterval ==
    (Training /\ pc \in {"sim", "update"} /\ sessionOpen) =>
        /\ simTime = steps + StepsAtEntry
        /\ sub <= Interval
        /\ pc = "sim" => sub < Interval
        /\ (pc = "update" /\ ~CutShort) => sub = Interval /\ steps % Interval = 0

\* train_gemini_version is about to update after its second full interval
SecondIntervalDone ==
    /\ variant = "gem" /\ pc = "update" /\ sessionOpen /\ ~CutShort
    /\ sub = DECISION_INTERVAL_gem /\ steps = 2 * DECISION_INTERVAL_gem

(******************************* C27 ***************************************)
\* The trainers on their own, as processes that keep running (a sequential
\* script whose calls return takes its next step), in the scenarios of one
\* short episode and of many empty episodes.
LiveConfigs == { c \in Configs : c.maxSteps <= ShortRun /\ c.episodes # ManyEpisodes }

LiveInit == Init /\ Training /\ cfg \in LiveConfigs

TrainerStep ==
    \/ NewLoad \/ NewEpisodeInit \/ NewDecide \/ NewSimStep \/ NewUpdate
    \/ NewEpisodeEnd \/ NewCkptOpen \/ NewCkptWrite \/ NewFinalOpen \/ NewFinalWrite
    \/ MainLoad \/ MainEpisodeInit \/ MainDecide \/ MainSimStep \/ MainUpdate
    \/ MainEpisodeEnd \/ MainSaveOpen \/ MainSaveWrite
    \/ GemLoad \/ GemEpisodeInit \/ GemDecide \/ GemSimStep \/ GemUpdate
    \/ GemEpisodeEnd \/ GemSaveOpen \/ GemSaveWrite

LiveNext == TrainerStep \/ TraciFailure \/ Interrupt \/ Kill

SpecLive == LiveInit /\ [][LiveNext]_vars /\ WF_vars(TrainerStep)

\* the counters stay within their caps; the decision loop is left for the end
\* of the episode with the step count at MAX_STEPS; train() returns after
\* NUM_EPISODES episodes
Bounded ==
    /\ steps <= MAX_STEPS /\ ep <= NUM_EPISODES
    /\ pc \in {"decide", "sim"} => steps < MAX_STEPS
    /\ pc = "ep_end" => steps = MAX_STEPS
    /\ pc \in {"final_open", "final_write", "done"} => ep = NUM_EPISODES

\* C27: the steps of an episode never exceed MAX_STEPS, an episode without
\* collision ends when the count hits MAX_STEPS, and a training run whose
\* calls return comes to an end, after NUM_EPISODES episodes when nothing
\* stopped it before.
TrainingTerminates == []Bounded /\ <>Ended

\* an episode has run up to the step cap and train() has returned
AllEpisodesDone ==
    /\ pc = "done" /\ ep = NUM_EPISODES /\ steps = MAX_STEPS /\ MAX_STEPS > 0

(******************************* C28 ***************************************)
\* a step of a running trainer keeps every table, every row of it, and the
\* length of every row
RowsKept ==
    (Training /\ pc' # "killed") =>
        \A id \in DOMAIN q_tables :
            /\ id \in DOMAIN q_tables'
            /\ \A k \in DOMAIN q_tables[id] :
                  /\ k \in DOMAIN q_tables'[id]
                  /\ Len(q_tables'[id][k]) = Len(q_tables[id][k])

\* C28: while a training process runs, no row is ever removed from a table and
\* the length of an existing row never changes: the set of keys of each table
\* only grows and each row keeps the length it was created with.
RowsNeverRemoved == [][RowsKept]_vars

\* in a later episode a table holds several rows, one of them written
RowsAccumulated ==
    /\ Training /\ ep >= 2 /\ pc = "update"
    /\ \E t \in Controlled :
          /\ Cardinality(DOMAIN q_tables[TableOf(t)]) >= 2
          /\ \E k \in DOMAIN q_tables[TableOf(t)] :
                \E i \in DOMAIN q_tables[TableOf(t)][k] : q_tables[TableOf(t)][k][i] # 0

(******************************* C29 ***************************************)
\* the entries of table id that a step has changed, as <<key, index>> pairs,
\* rows that the step added left aside
ChangedEntries(id) ==
    { e \in { <<k, i>> : k \in DOMAIN q_tables[id], i \in 1..Cardinality(Phases) } :
        /\ e[2] \in DOMAIN q_tables[id][e[1]]
        /\ q_tables'[id][e[1]][e[2]] # q_tables[id][e[1]][e[2]] }

\* the rows a step has added to table id
AddedRows(id) == DOMAIN q_tables'[id] \ DOMAIN q_tables[id]

\* a step of main_new.train or train_gemini_version.train that updates the
\* tables (the regular update, or the collision update inside the interval):
\* in the table of each agent only the entry of its decision may change and only
\* the row of the state it observes may be added, all-zero but for that entry;
\* the collision update adds nothing; tables of no agent are left alone
UpdateFrame ==
    (variant \in {"new", "gem"} /\ pc \in {"sim", "update"} /\ pc' # "killed") =>
        /\ DOMAIN q_tables' = DOMAIN q_tables
        /\ \A id \in DOMAIN q_tables \ TLS : q_tables'[id] = q_tables[id]
        /\ \A t \in TLS :
              /\ ChangedEntries(t) \subseteq {<<DecisionKey(t), agents[t].action + 1>>}
              /\ AddedRows(t) \subseteq (IF pc = "update" THEN {ObservedKey(t)} ELSE {})
              /\ \A k \in AddedRows(t) : q_tables'[t][k] = ZeroRow(n_actions(t))

\* C29: a Q-update of one agent changes exactly one entry of that agent's own
\* table and may add one all-zero row for the state just observed; every other
\* entry and every other agent's table stay as they were, in main_new.train and
\* train_gemini_version.train, the collision update included.
UpdateTouchesOneEntry == [][UpdateFrame]_vars

\* two agents of train_gemini_version after a collision update: each table has
\* the entry of its agent's decision written, and no row but that one
CollisionUpdateOfTwo ==
    /\ variant = "gem" /\ Cardinality(TLS) = 2 /\ hist.startFile = Absent
    /\ pc = "update" /\ collisions > 0
    /\ \A t \in TLS :
          /\ DOMAIN q_tables[t] = {agents[t].prev_state}
          /\ q_tables[t][agents[t].prev_state][agents[t].action + 1] # 0

(******************************* C30 ***************************************)
\* the reward agent t would receive at this update if the simulator reported
\* the halting counts h and the waiting times w
RewardAt(h, w, t) ==
    IF variant = "new" THEN NewRewardAt(h, t)
    ELSE local_reward(w, collisions, t, agents[t].prev_waits)
         - (IF agents[t].action # simPhase[t] THEN PHASE_CHANGE_PENALTY ELSE 0)

\* C30: an agent's reward is the same whatever the counts and waiting times on
\* lanes it does not control: any other readings that agree with the actual
\* ones on the agent's own lanes (with the same commands and collision count)
\* give it the same reward, in main_new.train and train_gemini_version.train.
RewardLocal ==
    (variant \in {"new", "gem"} /\ pc = "update" /\ sessionOpen) =>
        \A t \in TLS :
            \A h \in [Lanes -> HaltValues], w \in [Lanes -> WaitValues] :
                (\A l \in Range(ControlledLanes(t)) : h[l] = halts[l] /\ w[l] = waits[l])
                    => RewardAt(h, w, t) = IntervalReward(t)

\* two agents whose lanes differ in cost are about to receive different rewards
NeighboursDiffer ==
    /\ variant \in {"new", "gem"} /\ pc = "update" /\ sessionOpen
    /\ \E t, u \in TLS :
          /\ LaneCost(halts, waits, t) # LaneCost(halts, waits, u)
          /\ IntervalReward(t) # IntervalReward(u)

(******************************* C31 ***************************************)
\* choose_action on its own: one agent with n actions, whose state has a row of
\* n scores or none, at an exploration rate of 0, EPSILON_END or 1
MaxActions == 3
Scores == {-Scale, 0, Scale}
ChooseConfigs == { Scenario(0, 0, {1}, OneLane({1}), (1 :> n), FALSE) : n \in 0..MaxActions }

ChooseInit ==
    /\ variant \in {"main", "new", "gem"}
    /\ cfg \in ChooseConfigs
    /\ pc = "decide"
    /\ ep = 0 /\ steps = 0 /\ sub = 0
    /\ eps \in {0, EPSILON_END, EPSILON_START}
    /\ q_tables \in { (1 :> NoRows) } \cup
                    { (1 :> (NoKey :> row)) : row \in [1..n_actions(1) -> Scores] }
    /\ q_shape = "dict"
    /\ agents = NoAgents
    /\ file = Absent /\ ckpt = Absent
    /\ sessionOpen = TRUE /\ sessions = 1
    /\ simPhase = [t \in TLS |-> 0]
    /\ halts = [l \in Lanes |-> 0]
    /\ waits = [l \in Lanes |-> 0]
    /\ collisions = 0 /\ simTime = 0
    /\ hist = NoHist

\* the call returns an action
ChooseReturn ==
    /\ pc = "decide"
    /\ \E a \in choose_action(q_tables[1], agents[1].state_key, n_actions(1), eps) :
          agents' = [agents EXCEPT ![1].action = a]
    /\ pc' = "sim"
    /\ hist' = [hist EXCEPT !.selected = TRUE]
    /\ UNCHANGED <<variant, cfg, ep, steps, sub, eps, q_tables, q_shape, file, ckpt,
                   sessionOpen, sessions, simPhase, halts, waits, collisions, simTime>>

\* the call raises ValueError (random.randrange(0))
ChooseRaise ==
    /\ pc = "decide"
    /\ choose_action(q_tables[1], agents[1].state_key, n_actions(1), eps) = {}
    /\ pc' = "error"
    /\ hist' = [hist EXCEPT !.reported = TRUE]
    /\ UNCHANGED <<variant, cfg, ep, steps, sub, eps, q_tables, q_shape, agents, file, ckpt,
                   sessionOpen, sessions, simPhase, halts, waits, collisions, simTime>>

ChooseNext == ChooseReturn \/ ChooseRaise

SpecChoose == ChooseInit /\ [][ChooseNext]_vars

\* the actions of largest score in the row of the agent's state
BestActions ==
    LET row == q_tables[1][agents[1].state_key]
    IN { a \in 0..(Len(row) - 1) : row[a + 1] = SeqMax(row) }

\* C31: choose_action returns an index in [0, action_count); when it does not
\* explore (at epsilon 0 it never does) and the state has a row, the action it
\* returns has the largest score of that row.
ChoiceInRange ==
    /\ pc = "sim" => agents[1].action \in 0..(n_actions(1) - 1)
    /\ (pc = "sim" /\ eps = 0 /\ agents[1].state_key \in DOMAIN q_tables[1])
          => agents[1].action \in BestActions
    /\ (pc = "decide" /\ agents[1].state_key \in DOMAIN q_tables[1])
          => /\ choose_action(q_tables[1], agents[1].state_key, n_actions(1), 0) = BestActions
             /\ choose_action(q_tables[1], agents[1].state_key, n_actions(1), 0)
                   \subseteq choose_action(q_tables[1], agents[1].state_key, n_actions(1), eps)

\* without exploration the last of three actions was returned: it has the
\* largest score, the first has not
LastActionIsBest ==
    /\ pc = "sim" /\ eps = 0 /\ hist.selected /\ n_actions(1) = 3
    /\ agents[1].state_key \in DOMAIN q_tables[1]
    /\ agents[1].action = 2
    /\ q_tables[1][agents[1].state_key][1] < q_tables[1][agents[1].state_key][3]

(******************************* C32 ***************************************)
\* C32: train_gemini_version.train never calls the simulator on a session that
\* has been closed: wherever its next statement is a TraCI call (the phase query
\* of a decision, a simulation step, the state query of an update, the close at
\* the end of the episode) the session is open.
NoCallOnClosedSession ==
    (variant = "gem" /\ pc \in {"decide", "sim", "update", "ep_end"}) => sessionOpen

(******************************* C33 ***************************************)
\* a score in memory that an update of this process has written: it is not
\* zero and the loaded tables do not hold it
WrittenScores ==
    { e \in { <<id, k>> : id \in DOMAIN q_tables, k \in UNION { DOMAIN q_tables[i] : i \in DOMAIN q_tables } } :
        /\ e[2] \in DOMAIN q_tables[e[1]]
        /\ \E i \in DOMAIN q_tables[e[1]][e[2]] :
              /\ q_tables[e[1]][e[2]][i] # 0
              /\ ~ ( /\ e[1] \in DOMAIN hist.loadedTables
                     /\ e[2] \in DOMAIN hist.loadedTables[e[1]]
                     /\ i \in DOMAIN hist.loadedTables[e[1]][e[2]]
                     /\ hist.loadedTables[e[1]][e[2]][i] = q_tables[e[1]][e[2]][i] ) }

\* C33: when a trainer has stopped on its own (train() returned, or an error
\* ended it after a collision or a failure inside an episode), the file it
\* wrote last holds the tables with every update applied before the stop.
NoUpdateLost ==
    (Training /\ pc \in {"done", "error"} /\ q_shape = "dict" /\ WrittenScores # {}) =>
        /\ hist.saveTarget # "none"
        /\ Observed(SavedFile).ok
        /\ Observed(SavedFile).tables = q_tables

(******************************* C34 ***************************************)
\* main.py with the episode's reward total followed: two episodes of two full
\* decision cycles and one cut short by the step cap
TallyRun == 11
TallyConfigs ==
    { [Scenario(TallyRun, 2, {1}, OneLane({1}), TwoPhases({1}), FALSE) EXCEPT !.tally = TRUE] }

TallyInit ==
    /\ variant = "main"
    /\ cfg \in TallyConfigs
    /\ pc = "load"
    /\ ep = 0 /\ steps = 0 /\ sub = 0
    /\ eps = EPSILON_START
    /\ q_tables = NoTables /\ q_shape = "dict"
    /\ agents = NoAgents
    /\ file \in {Absent, TrainedFile("main")}
    /\ ckpt = Absent
    /\ sessionOpen = FALSE /\ sessions = 0
    /\ simPhase = [t \in TLS |-> 0]
    /\ halts = [l \in Lanes |-> 0]
    /\ waits = [l \in Lanes |-> 0]
    /\ collisions = 0 /\ simTime = 0
    /\ hist = [NoHist EXCEPT !.startFile = file]

TallyNext ==
    \/ MainLoad \/ MainEpisodeInit \/ MainDecide \/ MainSimStep \/ MainUpdate
    \/ MainEpisodeEnd \/ MainSaveOpen \/ MainSaveWrite

SpecTally == TallyInit /\ [][TallyNext]_vars

\* C34: in main.train, at the end of every decision cycle of an episode the
\* reward total of the episode is the halting count observed at its start minus
\* the halting count just observed, minus PHASE_CHANGE_PENALTY for every cycle
\* so far whose chosen phase differed from the tracked current phase.
RewardTelescopes ==
    (variant = "main" /\ pc \in {"decide", "ep_end"}) =>
        agents[tls_id].total_reward
            = (hist.initCost - HaltSum(halts, lane_ids)) * Scale
              - PHASE_CHANGE_PENALTY * hist.churned

\* after two cycles, one of which changed the phase, fewer vehicles halt than
\* at the start of the episode
TwoCyclesSummed ==
    /\ variant = "main" /\ cfg.tally /\ pc = "decide"
    /\ steps = 2 * DECISION_INTERVAL_main
    /\ hist.churned = 1
    /\ hist.initCost > HaltSum(halts, lane_ids)
    /\ agents[tls_id].total_reward > 0

(******************************* C35 ***************************************)
\* The exploration rate over a training run as configured, in millionths (the
\* truncation of a product loses less than one millionth, so the rate followed
\* here is never above the real one and less than 0.002 below it after 2000
\* episodes).
Micro == Scale * Scale
NUM_EPISODES_main == 200
NUM_EPISODES_new  == 1000
NUM_EPISODES_gem  == 2000
ConfiguredEpisodes(v) == IF v = "main" THEN NUM_EPISODES_main
                         ELSE IF v = "new" THEN NUM_EPISODES_new ELSE NUM_EPISODES_gem
ConfiguredDecay(v) == IF v = "main" THEN DECAY_main
                      ELSE IF v = "new" THEN DECAY_new ELSE DECAY_gem

\* EPSILON_END and "epsilon = max(EPSILON_END, epsilon * EPSILON_DECAY)" in millionths
MicroEnd == (5 * Micro) \div 100
DecayMicro(e, decay) == Max(MicroEnd, (e * decay[1]) \div decay[2])

DecayInit ==
    /\ variant \in {"main", "new", "gem"}
    /\ cfg = Scenario(0, ConfiguredEpisodes(variant), {1}, OneLane({1}), TwoPhases({1}), FALSE)
    /\ pc = "ep_start"
    /\ ep = 0 /\ steps = 0 /\ sub = 0
    /\ eps = Micro
    /\ q_tables = NoTables /\ q_shape = "dict"
    /\ agents = NoAgents
    /\ file = Absent /\ ckpt = Absent
    /\ sessionOpen = FALSE /\ sessions = 0
    /\ simPhase = [t \in TLS |-> 0]
    /\ halts = [l \in Lanes |-> 0]
    /\ waits = [l \in Lanes |-> 0]
    /\ collisions = 0 /\ simTime = 0
    /\ hist = NoHist

\* one iteration of the episode loop, reduced to its effect on epsilon
DecayEpisode ==
    /\ pc = "ep_start" /\ ep < NUM_EPISODES
    /\ ep' = ep + 1
    /\ eps' = DecayMicro(eps, ConfiguredDecay(variant))
    /\ UNCHANGED <<variant, cfg, pc, steps, sub, q_tables, q_shape, agents, file, ckpt,
                   sessionOpen, sessions, simPhase, halts, waits, collisions, simTime, hist>>

\* the episode loop is exhausted
DecayFinish ==
    /\ pc = "ep_start" /\ ep >= NUM_EPISODES
    /\ pc' = "done"
    /\ UNCHANGED <<variant, cfg, ep, steps, sub, eps, q_tables, q_shape, agents, file, ckpt,
                   sessionOpen, sessions, simPhase, halts, waits, collisions, simTime, hist>>

DecayNext == DecayEpisode \/ DecayFinish

SpecDecay == DecayInit /\ [][DecayNext]_vars

\* C35: in each trainer as configured the exploration rate has reached
\* EPSILON_END when the last episode begins, and so when the run finishes.
FloorBeforeEnd ==
    (ep >= NUM_EPISODES - 1) => eps = MicroEnd


(************ C36: the runner encodes states as its trainer does ***********)
\* the rows a table of train_gemini_version.py can hold for intersection t: one
\* per key its get_local_state builds from some observation
TrainedKeys(t) == { get_local_state(h, t) : h \in [Lanes -> Counts] }

\* C36: for every intersection and every observation, the key that
\* run_qlearning_tls_multi_tables.get_local_state builds is the key that
\* train_gemini_version.get_local_state has built from the same lane counts and
\* the same controlled-lane list (same thresholds, lanes sorted, a tuple), so
\* the runner looks up a key the trainer can have written.
RunnerEncodesAsTrainer ==
    (variant = "gem" /\ pc = "encoded") =>
        \A t \in TLS :
            /\ runm_get_local_state(halts, t) = agents[t].state_key
            /\ runm_get_local_state(halts, t) \in TrainedKeys(t)

\* the trainer has encoded an observation whose lanes are listed out of order
\* and twice, with counts that fall into different bins
UnsortedListingEncoded ==
    /\ variant = "gem" /\ pc = "encoded"
    /\ ControlledLanes(1) = <<2, 2, 1>>
    /\ halts[1] = 3 /\ halts[2] = MaxCount
    /\ agents[1].state_key = tuple_key(<<2, 5>>)
====
